---- MODULE Spec2Model ----
(***************************************************************************)
(* Model of github.com/cention-sany/mime: the quoted-printable Reader      *)
(* (strict and lenient constructors), its error record RErr, and the       *)
(* UTF-8 rejoiner qpUTF8 that is layered on top of it, and the media-type   *)
(* parser and formatter (ParseMediaType, FormatMediaType, PMTErr).          *)
(*                                                                         *)
(* Bytes are integers 0..255.  Go slices are sequences; a Go index i is    *)
(* the TLA+ index i+1.  A Read call is one action: the whole loop of the   *)
(* handler is computed by a recursive operator.                            *)
(***************************************************************************)
EXTENDS Integers, Sequences, FiniteSets, TLC

VARIABLES
  qpIn,    \* the bytes the upstream of the quoted-printable Reader holds in total
  qpBr,    \* bufio.Reader: the bytes not yet handed out, and the upstream's final error
  qpRd,    \* the Reader object (line, prev, last, rerr, gerr, strict/lenient Fn)
  qpOut,   \* every byte the Reader has returned so far
  qpRet,   \* (n, err) of the latest Reader.Read, and the len(p) it was called with
  u8In,    \* the bytes the upstream of the rejoiner holds in total
  u8Src,   \* what the rejoiner's upstream has not delivered yet
  u8Q,     \* the qpUTF8 object
  u8Out,   \* every byte the rejoiner has returned so far
  u8Ret,   \* (n, err) of the latest qpUTF8.Read, and the len(p) it was called with
  reG,     \* an RErr on its own
  rePrev,  \* that RErr before the latest call on it
  reOp,    \* the latest call on it: its name, its argument, what it returned
  mtArg,   \* the arguments of FormatMediaType: the type and the parameter map
  mtIn,    \* the value handed to ParseMediaType
  mtRes    \* the latest media-type call and what it returned

qpVars == <<qpIn, qpBr, qpRd, qpOut, qpRet>>
u8Vars == <<u8In, u8Src, u8Q, u8Out, u8Ret>>
reVars == <<reG, rePrev, reOp>>
mtVars == <<mtArg, mtIn, mtRes>>
vars == <<qpIn, qpBr, qpRd, qpOut, qpRet, u8In, u8Src, u8Q, u8Out, u8Ret,
          reG, rePrev, reOp, mtArg, mtIn, mtRes>>

(***************************************************************************)
(* Bounds of the model.                                                    *)
(***************************************************************************)
\* longest upstream input of the rejoiner
U8MaxLen == 4
\* largest len(p) a caller of qpUTF8.Read passes
U8MaxCap == 3
\* size of the bufio.Reader's buffer (4096 in bufio), scaled down
BufSize == 3
\* longest upstream input of the quoted-printable Reader
QPMaxLen == 4
\* largest len(p) a caller of Reader.Read passes
QPMaxCap == 2
\* longest input whose lines are decoded through a buffer that holds them
LnMaxLen == 5

\* the composite reader: tokens per input, caller buffer lengths 1..CQMaxCap
CQMaxTokens == 4

CQMaxCap == 2

\* parameters after the head of a value handed to ParseMediaType
PMMaxParams == 3

\* parameters of a value with RFC 2231 continuations
STMaxParams == 3

\* entries of a parameter map handed to FormatMediaType
FMMaxParams == 2

\* the most tokens of an input of the rejoiner's assembly buffer
AsMaxTokens == 3

\* a caller buffer longer than buf
AsBigCap == 600

\* tokens per input where the caller's reads are fair
AsFairMaxTokens == 2

\* Read calls made after a Read has returned an error
SkMaxAfter == 2

\* bytes per input where the caller's reads of the decoder are fair
TmMaxLen == 3

(***************************************************************************)
(* Generic helpers.                                                        *)
(***************************************************************************)
Min(a, b) == IF a < b THEN a ELSE b

\* all sequences over S of length 0..n
SeqsUpTo(S, n) == UNION {[1..k -> S] : k \in 0..n}

\* the sequences ts[1], ts[2], ... put together
RECURSIVE Flatten(_)
Flatten(ts) == IF ts = <<>> THEN <<>> ELSE ts[1] \o Flatten(Tail(ts))

\* s[from..] with a 0-based Go index: s[from:]
Drop(s, from) == SubSeq(s, from + 1, Len(s))

\* s[:to] with a 0-based Go index
Take(s, to) == SubSeq(s, 1, to)

\* body with x bound to the value of v: v is evaluated once, before body
Let(v, F(_)) == CHOOSE y \in {F(x) : x \in {v}} : TRUE

IsPrefix(s, t) == Len(s) <= Len(t) /\ SubSeq(t, 1, Len(s)) = s

\* s is obtained from t by deleting elements of t that lie in delSet
RECURSIVE IsDeletionOf(_, _, _)
IsDeletionOf(s, t, delSet) ==
  IF t = <<>> THEN s = <<>>
  ELSE \/ s # <<>> /\ Head(s) = Head(t) /\ IsDeletionOf(Tail(s), Tail(t), delSet)
       \/ Head(t) \in delSet /\ IsDeletionOf(s, Tail(t), delSet)

(***************************************************************************)
(* Errors are records of one shape, so that any two can be compared.       *)
(***************************************************************************)
NilErr == [kind |-> "nil", arg |-> <<>>]
ErrEOF == [kind |-> "EOF", arg |-> <<>>]
ErrIO == [kind |-> "upstream I/O error", arg |-> <<>>]

(***************************************************************************)
(* RErr: the error record of the quoted-printable Reader.                  *)
(***************************************************************************)
maxQPRErr == 4

maxQPBuf == 3

ErrBufferFull == [kind |-> "bufio: buffer full", arg |-> <<>>]
ErrUnexpectedEOF == [kind |-> "unexpected EOF", arg |-> <<>>]
ErrInvalidHex(b) == [kind |-> "quotedprintable: invalid hex byte", arg |-> <<b>>]
ErrInvalidUnescaped(b) ==
  [kind |-> "quotedprintable: invalid unescaped byte in body", arg |-> <<b>>]
ErrInvalidAfterEq(bytes) ==
  [kind |-> "quotedprintable: invalid bytes after =", arg |-> bytes]

\* new(RErr); errs[0..count) is kept as a sequence of length count
NewRErr == [errs |-> <<>>, err |-> NilErr]

\* an add that, with maxQPRErr errors recorded, puts the new one first
add_replacesFirst(g, e) ==
  IF e = NilErr THEN g
  ELSE IF Len(g.errs) = maxQPRErr THEN [g EXCEPT !.errs[1] = e]
  ELSE [g EXCEPT !.errs = Append(g.errs, e)]

\* RErr.add
add(g, e) ==
  IF e = NilErr THEN g
  ELSE IF Len(g.errs) = maxQPRErr THEN g
  ELSE [g EXCEPT !.errs = Append(g.errs, e)]

\* an addUnrecover that stores whatever it is given, nil too
addUnrecover_storesNil(g, e) == [g EXCEPT !.err = e]

\* RErr.addUnrecover
addUnrecover(g, e) == IF e # NilErr THEN [g EXCEPT !.err = e] ELSE g

\* a getErr that prefers the fatal error to the recorded ones
getErr_fatalFirst(g) ==
  IF g.err # NilErr THEN g.err ELSE IF Len(g.errs) = 0 THEN NilErr ELSE g.errs[1]

\* RErr.getErr
getErr(g) == IF Len(g.errs) = 0 THEN g.err ELSE g.errs[1]

\* fmt's %02x of a byte
HexDigits ==
  <<"0", "1", "2", "3", "4", "5", "6", "7", "8", "9", "a", "b", "c", "d", "e", "f">>

Hex2(b) == HexDigits[(b \div 16) + 1] \o HexDigits[(b % 16) + 1]

\* fmt's %q of bytes that isQPDiscardWhitespace accepts, without the quotes
RECURSIVE QuoteWs(_)
QuoteWs(bytes) ==
  IF bytes = <<>> THEN ""
  ELSE (IF Head(bytes) = 10 THEN "\\n" ELSE IF Head(bytes) = 13 THEN "\\r"
        ELSE IF Head(bytes) = 9 THEN "\\t" ELSE " ") \o QuoteWs(Tail(bytes))

\* err.Error() of the errors the Reader meets
ErrorString(e) ==
  IF e.kind = "quotedprintable: invalid hex byte"
  THEN "quotedprintable: invalid hex byte 0x" \o Hex2(e.arg[1])
  ELSE IF e.kind = "quotedprintable: invalid unescaped byte in body"
  THEN "quotedprintable: invalid unescaped byte 0x" \o Hex2(e.arg[1]) \o " in body"
  ELSE IF e.kind = "quotedprintable: invalid bytes after ="
  THEN "quotedprintable: invalid bytes after =: \"" \o QuoteWs(e.arg) \o "\""
  ELSE e.kind

\* strings.Join(errs, "|") of the messages of errs[from..]
RECURSIVE JoinErrors(_, _)
JoinErrors(errs, from) ==
  IF from > Len(errs) THEN ""
  ELSE IF from = Len(errs) THEN ErrorString(errs[from])
  ELSE ErrorString(errs[from]) \o "|" \o JoinErrors(errs, from + 1)

\* an Error that renders the recorded errors before the fatal one
Error_recordedFirst(g) ==
  IF Len(g.errs) > 0 THEN JoinErrors(g.errs, 1)
  ELSE IF g.err # NilErr THEN ErrorString(g.err)
  ELSE "<nil>"

\* RErr.Error
Error(g) ==
  IF g.err # NilErr THEN ErrorString(g.err)
  ELSE IF Len(g.errs) > 0 THEN JoinErrors(g.errs, 1)
  ELSE "<nil>"

(***************************************************************************)
(* Reader: the quoted-printable decoder.                                   *)
(***************************************************************************)
\* getReader; last is the slice prev[lastOff : lastOff + lastLen]
getReader(strict) ==
  [strict |-> strict, gerr |-> NewRErr, rerr |-> NilErr, line |-> <<>>,
   prev |-> <<0, 0, 0, 0>>, lastOff |-> 0, lastLen |-> 0]

\* NewStrictReader: Fn returns gerr.getErr()
NewStrictReader == getReader(TRUE)

\* NewReader: Fn returns gerr.err
NewReader == getReader(FALSE)

\* a Fn that selects the first recorded error in both modes
Fn_firstRecorded(r) == getErr(r.gerr)

\* a Fn that returns the fatal error in both modes
Fn_fatalOnly(r) == r.gerr.err

\* r.Fn()
Fn(r) == IF r.strict THEN getErr(r.gerr) ELSE r.gerr.err

\* r.last as a sequence of bytes
LastBytes(r) == SubSeq(r.prev, r.lastOff + 1, r.lastOff + r.lastLen)

\* a fromHex that knows the digits 0-9 only
fromHex_digitsOnly(b) == IF b >= 48 /\ b <= 57 THEN b - 48 ELSE -1

\* fromHex: the digit's value, or -1 for the error
fromHex(b) ==
  IF b >= 48 /\ b <= 57 THEN b - 48
  ELSE IF b >= 65 /\ b <= 70 THEN b - 65 + 10
  ELSE IF b >= 97 /\ b <= 102 THEN b - 97 + 10
  ELSE -1

\* readHexByte: (b, err)
readHexByte(v) ==
  IF Len(v) < 2 THEN [b |-> 0, err |-> ErrUnexpectedEOF]
  ELSE IF fromHex(v[1]) < 0 THEN [b |-> 0, err |-> ErrInvalidHex(v[1])]
  ELSE IF fromHex(v[2]) < 0 THEN [b |-> 0, err |-> ErrInvalidHex(v[2])]
  ELSE [b |-> (fromHex(v[1]) * 16 + fromHex(v[2])) % 256, err |-> NilErr]

\* an isQPDiscardWhitespace that keeps spaces
isQPDiscardWhitespace_keepsSpace(b) == b \in {10, 13, 9}

\* isQPDiscardWhitespace: the bytes trimmed from the right of a line
isQPDiscardWhitespace(b) == b \in {10, 13, 32, 9}

\* bytes.TrimRightFunc(s, isQPDiscardWhitespace)
RECURSIVE TrimRight(_)
TrimRight(s) ==
  IF s # <<>> /\ isQPDiscardWhitespace(s[Len(s)]) THEN TrimRight(Take(s, Len(s) - 1))
  ELSE s

HasPrefix(s, pre) == Len(s) >= Len(pre) /\ Take(s, Len(pre)) = pre

HasSuffix(s, suf) == Len(s) >= Len(suf) /\ Drop(s, Len(s) - Len(suf)) = suf

crlf == <<13, 10>>

lf == <<10>>

softSuffix == <<61>>

\* the position of the first LF among the first n bytes of s, 0 if there is none
RECURSIVE IndexLF(_, _, _)
IndexLF(s, i, n) ==
  IF i > n THEN 0 ELSE IF s[i] = 10 THEN i ELSE IndexLF(s, i + 1, n)

\* bufio.NewReader(r) over an upstream that returns data and then uerr
NewBufio(data, uerr, size) == [data |-> data, err |-> uerr, size |-> size]

\* br.ReadSlice('\n') on a bufio.Reader whose buffer has br.size bytes: the
\* line up to and including LF; the whole buffer with ErrBufferFull when
\* br.size bytes hold no LF; the rest of the data with the upstream's error
\* at its end.
ReadSlice(br) ==
  LET at == IndexLF(br.data, 1, Min(Len(br.data), br.size))
  IN IF at > 0
     THEN [line |-> Take(br.data, at), err |-> NilErr,
           br |-> [br EXCEPT !.data = Drop(br.data, at)]]
     ELSE IF Len(br.data) >= br.size
     THEN [line |-> Take(br.data, br.size), err |-> ErrBufferFull,
           br |-> [br EXCEPT !.data = Drop(br.data, br.size)]]
     ELSE [line |-> br.data, err |-> br.err, br |-> [br EXCEPT !.data = <<>>]]

\* a line processing that trims the line and never restores its terminator
processLine_noTerminator(r, wholeLine) == [r EXCEPT !.line = TrimRight(wholeLine)]

\* what remains of a line that is not a raw buffer-full fragment: trailing
\* white space removed, a soft break elided, otherwise the line end put back
processLine(r, wholeLine) ==
  LET hasLF == HasSuffix(wholeLine, lf)
      hasCR == HasSuffix(wholeLine, crlf)
      trimmed == TrimRight(wholeLine)
      rightStripped == Drop(wholeLine, Len(trimmed))
  IN IF HasSuffix(trimmed, softSuffix)
     THEN IF ~HasPrefix(rightStripped, lf) /\ ~HasPrefix(rightStripped, crlf)
          THEN [r EXCEPT !.line = Take(trimmed, Len(trimmed) - 1),
                         !.rerr = ErrInvalidAfterEq(rightStripped),
                         !.gerr = add(r.gerr, ErrInvalidAfterEq(rightStripped))]
          ELSE [r EXCEPT !.line = Take(trimmed, Len(trimmed) - 1)]
     ELSE IF hasLF
     THEN [r EXCEPT !.line = trimmed \o (IF hasCR THEN crlf ELSE lf)]
     ELSE [r EXCEPT !.line = trimmed]

\* an emit whose strict reader swallows the '=' of a broken escape
emit_strictDropsEq(m, r, b) ==
  IF r.strict /\ b = 61 THEN [m EXCEPT !.r = r]
  ELSE [m EXCEPT !.r = r, !.p = Append(m.p, b)]

\* The state of one Read call: the Reader, its bufio.Reader, the bytes written
\* to p so far (n = Len(p)), len(p) of the call, and the return once done.
\* p[0] = b; p = p[1:]; n++
emit(m, r, b) == [m EXCEPT !.r = r, !.p = Append(m.p, b)]

\* return n, err
return(m, r, e) == [m EXCEPT !.r = r, !.err = e, !.done = TRUE]

\* an eject that hands over the pending bytes and keeps the error to itself
eject_swallowsError(m, e) ==
  LET k == Min(m.r.lastLen, m.max - Len(m.p))
  IN [m EXCEPT !.p = m.p \o SubSeq(LastBytes(m.r), 1, k),
               !.r.lastOff = m.r.lastOff + k, !.r.lastLen = m.r.lastLen - k,
               !.done = TRUE]

\* an eject after which the Reader has forgotten the errors it recorded
eject_reportsOnce(m, e) ==
  LET k == Min(m.r.lastLen, m.max - Len(m.p))
  IN [m EXCEPT !.p = m.p \o SubSeq(LastBytes(m.r), 1, k),
               !.r.lastOff = m.r.lastOff + k, !.r.lastLen = m.r.lastLen - k,
               !.r.gerr = NewRErr,
               !.err = e, !.done = TRUE]

\* "eject all pending bytes": as many bytes of last as p still takes
eject(m, e) ==
  LET k == Min(m.r.lastLen, m.max - Len(m.p))
  IN [m EXCEPT !.p = m.p \o SubSeq(LastBytes(m.r), 1, k),
               !.r.lastOff = m.r.lastOff + k, !.r.lastLen = m.r.lastLen - k,
               !.err = e, !.done = TRUE]

\* len(r.line) == 0: surface the error Fn selects, or read the next line
acquire(m) ==
  IF Fn(m.r) # NilErr THEN eject(m, Fn(m.r))
  ELSE Let(ReadSlice(m.br), LAMBDA s :
         IF s.err = ErrBufferFull
         THEN [m EXCEPT !.br = s.br, !.r.line = s.line, !.r.rerr = s.err,
                        !.r.gerr = add(m.r.gerr, s.err)]
         ELSE [m EXCEPT !.br = s.br,
                        !.r = processLine([m.r EXCEPT !.rerr = s.err,
                                                      !.gerr = addUnrecover(m.r.gerr, s.err)],
                                          s.line)])

\* r.last = nil
ClearLast(r) == [r EXCEPT !.lastOff = 0, !.lastLen = 0]

\* len(r.last) > 0 with r.last[0] == '=' and the escape to be completed from
\* the line: prev[lastNum+i] = line[0] for i < maxQPBuf - lastNum, then
\* r.last = r.prev[:maxQPBuf] and the hex decode of r.last[1:]
fillPrev(m, lastNum) ==
  LET diff == maxQPBuf - lastNum
      prev2 == [i \in 1..4 |->
                  IF i > lastNum /\ i <= lastNum + diff THEN m.r.line[i - lastNum]
                  ELSE m.r.prev[i]]
      h == readHexByte(SubSeq(prev2, 2, maxQPBuf))
      r2 == [m.r EXCEPT !.prev = prev2, !.line = Drop(m.r.line, diff)]
  IN IF h.err # NilErr
     THEN emit(m, [r2 EXCEPT !.gerr = add(m.r.gerr, h.err), !.lastOff = 1,
                             !.lastLen = maxQPBuf - 1], 61)
     ELSE emit(m, [r2 EXCEPT !.lastOff = 0, !.lastLen = 0], h.b)

\* lastNum > 0: the bytes stashed in prev come first
resume(m) ==
  LET r == m.r
      lastNum == r.lastLen
      b == r.prev[r.lastOff + 1]
  IN IF b # 61
     THEN emit(m, [r EXCEPT !.lastOff = r.lastOff + 1, !.lastLen = lastNum - 1], b)
     ELSE IF lastNum = 1 /\ HasPrefix(r.line, lf)
     THEN [m EXCEPT !.r = [ClearLast(r) EXCEPT !.line = Drop(r.line, Len(lf))],
                    !.again = Len(r.line) > Len(lf)]
     ELSE IF lastNum = 1 /\ HasPrefix(r.line, crlf)
     THEN [m EXCEPT !.r = [ClearLast(r) EXCEPT !.line = Drop(r.line, Len(crlf))],
                    !.again = Len(r.line) > Len(crlf)]
     ELSE IF lastNum = 1 /\ Len(r.line) < 2
     THEN [m EXCEPT !.r = [r EXCEPT !.prev[2] = r.line[1], !.line = Drop(r.line, 1),
                                    !.lastOff = 0, !.lastLen = 2]]
     ELSE fillPrev(m, lastNum)

\* b := r.line[0] and the switch on it
scan(m) ==
  LET r == m.r
      b == r.line[1]
      h == readHexByte(Drop(r.line, 1))
      n == Len(r.line)
  IN IF b = 61
     THEN IF h.err # NilErr
          THEN IF h.err = ErrUnexpectedEOF /\ r.rerr = ErrBufferFull
               THEN [m EXCEPT !.r = [r EXCEPT !.prev = [i \in 1..4 |->
                                                IF i <= n THEN r.line[i] ELSE r.prev[i]],
                                              !.lastOff = 0, !.lastLen = n,
                                              !.line = <<>>]]
               ELSE emit(m, [r EXCEPT !.gerr = add(r.gerr, h.err),
                                      !.line = Drop(r.line, 1)], 61)
          ELSE emit(m, [r EXCEPT !.line = Drop(r.line, 3)], h.b)
     ELSE IF b = 9 \/ b = 13 \/ b = 10
     THEN emit(m, [r EXCEPT !.line = Drop(r.line, 1)], b)
     ELSE IF b < 32 \/ b > 126
     THEN emit(m, [r EXCEPT !.gerr = add(r.gerr, ErrInvalidUnescaped(b)),
                            !.line = Drop(r.line, 1)], b)
     ELSE emit(m, [r EXCEPT !.line = Drop(r.line, 1)], b)

\* one iteration of "for len(p) > 0".  again = TRUE is the fall-through of a
\* deferred soft break whose line has bytes left: the same iteration goes on
\* to scan the line.
iteration(m) ==
  IF Len(m.p) >= m.max THEN return(m, m.r, NilErr)
  ELSE IF m.again THEN scan([m EXCEPT !.again = FALSE])
  ELSE IF Len(m.r.line) = 0 THEN acquire(m)
  ELSE IF m.r.lastLen > 0 THEN resume(m)
  ELSE scan(m)

RECURSIVE loop(_)
loop(m) == IF m.done THEN m ELSE Let(iteration(m), LAMBDA m2 : loop(m2))

\* Reader.Read(p) with len(p) = max
Read(r, br, max) ==
  loop([r |-> r, br |-> br, p |-> <<>>, max |-> max, err |-> NilErr,
        done |-> FALSE, again |-> FALSE])

(***************************************************************************)
(* qpUTF8: the UTF-8 rejoiner (qputf8.go).                                 *)
(***************************************************************************)
\* len(own)
OwnLen == 6

\* len(buf)
BufLen == 512

\* b & 0xc0
C0Mask(b) == (b \div 64) * 64

IsLead(b) == C0Mask(b) = 192

IsCont(b) == C0Mask(b) = 128

\* newQPUTF8: the zero value of the struct around r
NewQPUTF8 ==
  [state |-> "stNormal", pos |-> 0, pco |-> 0, cco |-> 0,
   own |-> <<0, 0, 0, 0, 0, 0>>, pcb |-> 0, ccb |-> 0, buf |-> <<>>,
   last |-> 0, err |-> NilErr]

\* release: hand the bytes own[cco..pco) to the caller, then reset or restart.
\* The result carries the object, the caller's buffer so far and the return value.
RECURSIVE release(_, _, _, _)
release(q, p, max, restart) ==
  IF q.cco < q.pco
  THEN LET p2 == Append(p, q.own[q.cco + 1])
           q2 == [q EXCEPT !.cco = q.cco + 1]
       IN IF Len(p2) >= max
          THEN [q |-> q2, p |-> p2, ok |-> FALSE]
          ELSE release(q2, p2, max, restart)
  ELSE [q |-> IF restart
              THEN [q EXCEPT !.cco = 0, !.own[1] = q.last, !.pco = 1, !.state = "stStart"]
              ELSE [q EXCEPT !.cco = 0, !.pco = 0, !.state = "stNormal"],
        p |-> p, ok |-> TRUE]

\* the restart arm shared by the states that hold a candidate
SawLead(q, b) == [q EXCEPT !.last = b, !.state = "stReleaseRestart"]

\* own[pco] = b; pco++
Store(q, b) == [q EXCEPT !.own[q.pco + 1] = b, !.pco = q.pco + 1]

\* a switch whose stStart collects until own is full, as st0x10XXXXXX does
cycleSwitch_startUpToSix(q, b) ==
  CASE q.state = "stStart" ->
         IF IsLead(b) THEN SawLead(q, b)
         ELSE LET s == Store(q, b)
              IN IF b = 13 THEN [s EXCEPT !.pos = q.pco, !.state = "st0x0D"]
                 ELSE IF b = 10 THEN [s EXCEPT !.pos = q.pco, !.state = "st0x0A"]
                 ELSE IF ~IsCont(b) \/ s.pco >= 6 THEN [s EXCEPT !.state = "stRelease"]
                 ELSE s
    [] q.state = "st0x0D" ->
         IF IsLead(b) THEN SawLead(q, b)
         ELSE LET s == Store(q, b)
              IN IF b = 10 THEN [s EXCEPT !.state = "st0x0A"]
                 ELSE [s EXCEPT !.state = "stRelease"]
    [] q.state = "st0x0A" ->
         IF IsLead(b) THEN SawLead(q, b)
         ELSE IF IsCont(b)
              THEN [q EXCEPT !.own[q.pos + 1] = b, !.pco = q.pos + 1,
                             !.state = "st0x10XXXXXX"]
              ELSE [Store(q, b) EXCEPT !.state = "stRelease"]
    [] q.state = "st0x10XXXXXX" ->
         IF IsLead(b) THEN SawLead(q, b)
         ELSE LET s == Store(q, b)
              IN IF ~IsCont(b) \/ s.pco = 6 THEN [s EXCEPT !.state = "stRelease"]
                 ELSE s
    [] OTHER -> q

\* a switch whose st0x10XXXXXX goes on collecting continuation bytes when
\* own is full
cycleSwitch_noLimit(q, b) ==
  CASE q.state = "stStart" ->
         IF IsLead(b) THEN SawLead(q, b)
         ELSE LET s == Store(q, b)
              IN IF b = 13 THEN [s EXCEPT !.pos = q.pco, !.state = "st0x0D"]
                 ELSE IF b = 10 THEN [s EXCEPT !.pos = q.pco, !.state = "st0x0A"]
                 ELSE IF ~IsCont(b) \/ s.pco >= 4 THEN [s EXCEPT !.state = "stRelease"]
                 ELSE s
    [] q.state = "st0x0D" ->
         IF IsLead(b) THEN SawLead(q, b)
         ELSE LET s == Store(q, b)
              IN IF b = 10 THEN [s EXCEPT !.state = "st0x0A"]
                 ELSE [s EXCEPT !.state = "stRelease"]
    [] q.state = "st0x0A" ->
         IF IsLead(b) THEN SawLead(q, b)
         ELSE IF IsCont(b)
              THEN [q EXCEPT !.own[q.pos + 1] = b, !.pco = q.pos + 1,
                             !.state = "st0x10XXXXXX"]
              ELSE [Store(q, b) EXCEPT !.state = "stRelease"]
    [] q.state = "st0x10XXXXXX" ->
         IF IsLead(b) THEN SawLead(q, b)
         ELSE LET s == Store(q, b)
              IN IF ~IsCont(b) THEN [s EXCEPT !.state = "stRelease"]
                 ELSE s
    [] OTHER -> q

\* the switch of cycle for one byte b in a state that holds a candidate
\* (every case but stNormal); the release states have no case.
cycleSwitch(q, b) ==
  CASE q.state = "stStart" ->
         IF IsLead(b) THEN SawLead(q, b)
         ELSE LET s == Store(q, b)
              IN IF b = 13 THEN [s EXCEPT !.pos = q.pco, !.state = "st0x0D"]
                 ELSE IF b = 10 THEN [s EXCEPT !.pos = q.pco, !.state = "st0x0A"]
                 ELSE IF ~IsCont(b) \/ s.pco >= 4 THEN [s EXCEPT !.state = "stRelease"]
                 ELSE s
    [] q.state = "st0x0D" ->
         IF IsLead(b) THEN SawLead(q, b)
         ELSE LET s == Store(q, b)
              IN IF b = 10 THEN [s EXCEPT !.state = "st0x0A"]
                 ELSE [s EXCEPT !.state = "stRelease"]
    [] q.state = "st0x0A" ->
         IF IsLead(b) THEN SawLead(q, b)
         ELSE IF IsCont(b)
              THEN [q EXCEPT !.own[q.pos + 1] = b, !.pco = q.pos + 1,
                             !.state = "st0x10XXXXXX"]
              ELSE [Store(q, b) EXCEPT !.state = "stRelease"]
    [] q.state = "st0x10XXXXXX" ->
         IF IsLead(b) THEN SawLead(q, b)
         ELSE LET s == Store(q, b)
              IN IF ~IsCont(b) \/ s.pco = 6 THEN [s EXCEPT !.state = "stRelease"]
                 ELSE s
    [] OTHER -> q

\* cycle: feed buf[i..n) through the state machine, writing to p.
\* ok = FALSE is the "return false" of a full caller buffer.
RECURSIVE cycle(_, _, _, _, _)
cycle(q, p, i, n, max) ==
  IF i >= n THEN [q |-> q, p |-> p, ok |-> TRUE]
  ELSE LET b == q.buf[i + 1]
       IN IF q.state = "stNormal"
          THEN IF IsLead(b)
               THEN cycle([q EXCEPT !.state = "stStart", !.own[1] = b, !.pco = 1],
                          p, i + 1, n, max)
               ELSE LET p2 == Append(p, b)
                    IN IF Len(p2) >= max
                       THEN [q |-> [q EXCEPT !.pcb = n, !.ccb = i + 1], p |-> p2,
                             ok |-> FALSE]
                       ELSE cycle(q, p2, i + 1, n, max)
          ELSE LET s == cycleSwitch(q, b)
                   isReleaseRestart == s.state = "stReleaseRestart"
               IN IF isReleaseRestart \/ s.state = "stRelease"
                  THEN LET r == release(s, p, max, isReleaseRestart)
                       IN IF ~r.ok
                          THEN [q |-> [r.q EXCEPT !.pcb = n, !.ccb = i + 1], p |-> r.p,
                                ok |-> FALSE]
                          ELSE cycle(r.q, r.p, i + 1, n, max)
                  ELSE cycle(s, p, i + 1, n, max)

\* qpUTF8.Read up to the upstream read: the resumed cycle over the bytes left
\* in buf and the stashed error.  done = TRUE when Read has already returned.
ReadBefore(q, max) ==
  LET c == IF q.pcb > q.ccb THEN cycle(q, <<>>, q.ccb, q.pcb, max)
           ELSE [q |-> q, p |-> <<>>, ok |-> TRUE]
  IN IF ~c.ok THEN [q |-> c.q, p |-> c.p, err |-> NilErr, done |-> TRUE]
     ELSE IF c.q.err # NilErr
          THEN LET r == IF \/ c.q.state = "st0x10XXXXXX"
                           \/ (c.q.state = "stStart" /\ c.q.pco - c.q.cco > 1)
                        THEN release(c.q, c.p, max, FALSE)
                        ELSE [q |-> c.q, p |-> c.p, ok |-> TRUE]
               IN [q |-> r.q, p |-> r.p, err |-> c.q.err, done |-> TRUE]
          ELSE [q |-> c.q, p |-> c.p, err |-> NilErr, done |-> FALSE]

\* an allowedReadSize that leaves the bytes held in own out of account
readLen_ignoresHeld(q, p, max) ==
  LET allowedReadSize == max - Len(p)
  IN IF allowedReadSize > 0
     THEN (IF allowedReadSize > 512 THEN 512 ELSE allowedReadSize)
     ELSE 0

\* the number of bytes Read asks its upstream for (0: no upstream read)
readLen(q, p, max) ==
  LET allowedReadSize == (max - Len(p)) - (q.pco - q.cco)
  IN IF allowedReadSize > 0
     THEN (IF allowedReadSize > 512 THEN 512 ELSE allowedReadSize)
     ELSE 0

\* qpUTF8.Read after the upstream returned (chunk, uerr); without an upstream
\* read chunk is empty and q.err keeps its value.
ReadAfter(q, p, max, didRead, chunk, uerr) ==
  LET q1 == IF didRead THEN [q EXCEPT !.buf = chunk, !.err = uerr] ELSE q
      n == IF didRead THEN Len(chunk) ELSE 0
      c == cycle(q1, p, 0, n, max)
  IN IF c.ok
     THEN LET q2 == [c.q EXCEPT !.pcb = 0, !.ccb = 0]
          IN IF q2.cco >= q2.pco
             THEN [q |-> q2, p |-> c.p, err |-> q2.err]
             ELSE [q |-> q2, p |-> c.p, err |-> NilErr]
     ELSE [q |-> c.q, p |-> c.p, err |-> NilErr]

\* One whole qpUTF8.Read(p) with len(p) = max against an upstream that holds
\* data and ends with uerr.  When Read reaches its upstream read, the upstream
\* hands over k bytes (at most the bytes asked for and the bytes it has);
\* together = TRUE lets it report its final error with the last bytes.
U8Read(q, max, data, uerr, k, together) ==
  Let(ReadBefore(q, max), LAMBDA b :
    IF b.done
    THEN [q |-> b.q, p |-> b.p, err |-> b.err, rest |-> data,
          asked |-> 0, emitted |-> Len(b.p), held |-> b.q.pco - b.q.cco]
    ELSE LET m == readLen(b.q, b.p, max)
             n == Min(k, Min(m, Len(data)))
             e == IF Len(data) = 0 \/ (together /\ n = Len(data)) THEN uerr ELSE NilErr
         IN Let(ReadAfter(b.q, b.p, max, m > 0, Take(data, n), e), LAMBDA a :
              [q |-> a.q, p |-> a.p, err |-> a.err, rest |-> Drop(data, n),
               asked |-> m, emitted |-> Len(b.p), held |-> b.q.pco - b.q.cco]))

\* ioutil.ReadAll over the rejoiner with a caller buffer that never fills and an
\* upstream that hands over all it is asked for: the bytes read up to the error.
RECURSIVE U8ReadAll(_, _, _, _, _)
U8ReadAll(q, max, data, uerr, out) ==
  Let(U8Read(q, max, data, uerr, Len(data), FALSE), LAMBDA r :
    IF r.err # NilErr THEN out \o r.p
    ELSE U8ReadAll(r.q, max, r.rest, uerr, out \o r.p))

\* the reference output of the rejoiner for a whole input
Rejoin(in, uerr) == U8ReadAll(NewQPUTF8, Len(in) + 7, in, uerr, <<>>)

(***************************************************************************)
(* The rejoiner under test: any input over a small alphabet, any caller    *)
(* buffer length, any split of the input into upstream reads.              *)
(***************************************************************************)
\* a lead byte, a continuation byte, CR, LF, an ASCII letter
U8Alphabet == {195, 164, 13, 10, 97}

U8Inputs == SeqsUpTo(U8Alphabet, U8MaxLen)

NoCall == [max |-> 0, n |-> 0, err |-> NilErr]

\* a call on the RErr: op is its name, arg the error passed, strict the
\* constructor whose Fn is called, err and text what it returned
ReCall(op, arg, strict, err, text) ==
  [op |-> op, arg |-> arg, strict |-> strict, err |-> err, text |-> text]

REIdle ==
  /\ reG = NewRErr
  /\ rePrev = NewRErr
  /\ reOp = ReCall("new", NilErr, FALSE, NilErr, "")

\* no media-type call made: no arguments, no value, no result
MTIdle ==
  /\ mtArg = [t |-> <<>>, param |-> <<>>]
  /\ mtIn = <<>>
  /\ mtRes = [op |-> "none"]

QPIdle ==
  /\ qpIn = <<>>
  /\ qpBr = NewBufio(<<>>, ErrEOF, BufSize)
  /\ qpRd = NewReader
  /\ qpOut = <<>>
  /\ qpRet = NoCall

InitU8 ==
  /\ u8In \in U8Inputs
  /\ \E e \in {ErrEOF, ErrIO} : u8Src = [data |-> u8In, err |-> e]
  /\ u8Q = NewQPUTF8
  /\ u8Out = <<>>
  /\ u8Ret = NoCall
  /\ QPIdle
  /\ REIdle
  /\ MTIdle

\* the caller reads until Read returns an error (ioutil.ReadAll, io.Copy)
U8Call(max) ==
  /\ u8Ret.err = NilErr
  /\ \E k \in 1..max, together \in BOOLEAN :
       \E r \in {U8Read(u8Q, max, u8Src.data, u8Src.err, k, together)} :
          /\ u8Q' = r.q
          /\ u8Src' = [u8Src EXCEPT !.data = r.rest]
          /\ u8Out' = u8Out \o r.p
          /\ u8Ret' = [max |-> max, n |-> Len(r.p), err |-> r.err]
  /\ UNCHANGED <<u8In, qpVars, reVars, mtVars>>

NextU8 == \E max \in 1..U8MaxCap : U8Call(max)

SpecU8 == InitU8 /\ [][NextU8]_vars

U8Done == u8Ret.err # NilErr

(***************************************************************************)
(* The quoted-printable Reader under test: any input over a small          *)
(* alphabet, either constructor, any caller buffer length.                 *)
(***************************************************************************)
\* '=', a hex digit, space, CR, LF
QPAlphabet == {61, 65, 32, 13, 10, 1}

QPInputs == SeqsUpTo(QPAlphabet, QPMaxLen)

U8Idle ==
  /\ u8In = <<>>
  /\ u8Src = [data |-> <<>>, err |-> ErrEOF]
  /\ u8Q = NewQPUTF8
  /\ u8Out = <<>>
  /\ u8Ret = NoCall

InitQP ==
  /\ qpIn \in QPInputs
  /\ \E e \in {ErrEOF, ErrIO} : qpBr = NewBufio(qpIn, e, BufSize)
  /\ qpRd \in {NewStrictReader, NewReader}
  /\ qpOut = <<>>
  /\ qpRet = NoCall
  /\ U8Idle
  /\ REIdle
  /\ MTIdle

\* the caller reads until Read returns an error (io.Copy)
QPCall(max) ==
  /\ qpRet.err = NilErr
  /\ \E m \in {Read(qpRd, qpBr, max)} :
       /\ qpRd' = m.r
       /\ qpBr' = m.br
       /\ qpOut' = qpOut \o m.p
       /\ qpRet' = [max |-> max, n |-> Len(m.p), err |-> m.err]
  /\ UNCHANGED <<qpIn, u8Vars, reVars, mtVars>>

NextQP == \E max \in 1..QPMaxCap : QPCall(max)

SpecQP == InitQP /\ [][NextQP]_vars

QPDone == qpRet.err # NilErr

\* io.Copy over a Reader with a caller buffer that never fills: the bytes
\* read up to the first error, and that error
RECURSIVE QPReadAll(_, _, _, _)
QPReadAll(r, br, max, out) ==
  Let(Read(r, br, max), LAMBDA m :
    IF m.err # NilErr THEN [out |-> out \o m.p, err |-> m.err, r |-> m.r]
    ELSE QPReadAll(m.r, m.br, max, out \o m.p))

\* the whole decode of an input by a fresh Reader whose bufio.Reader has a
\* buffer of size bytes
Decode(strict, in, uerr, size) ==
  QPReadAll(getReader(strict), NewBufio(in, uerr, size), Len(in) + 4, <<>>)

\* the bufio.Reader hands the input out in these pieces
RECURSIVE Pieces(_)
Pieces(br) ==
  IF br.data = <<>> THEN <<>>
  ELSE Let(ReadSlice(br), LAMBDA s : <<s>> \o Pieces(s.br))

(***************************************************************************)
(* A caller that goes on reading after Read has returned an error: qpRet   *)
(* counts the calls made since then (after).                               *)
(***************************************************************************)
InitSk ==
  /\ qpIn \in QPInputs
  /\ \E e \in {ErrEOF, ErrIO} : qpBr = NewBufio(qpIn, e, BufSize)
  /\ qpRd \in {NewStrictReader, NewReader}
  /\ qpOut = <<>>
  /\ qpRet = [max |-> 0, n |-> 0, err |-> NilErr, after |-> 0]
  /\ U8Idle
  /\ REIdle
  /\ MTIdle

QPCallOn(max) ==
  /\ qpRet.after < SkMaxAfter
  /\ \E m \in {Read(qpRd, qpBr, max)} :
       /\ qpRd' = m.r
       /\ qpBr' = m.br
       /\ qpOut' = qpOut \o m.p
       /\ qpRet' = [max |-> max, n |-> Len(m.p), err |-> m.err,
                    after |-> IF qpRet.err # NilErr THEN qpRet.after + 1 ELSE 0]
  /\ UNCHANGED <<qpIn, u8Vars, reVars, mtVars>>

NextSk == \E max \in 1..QPMaxCap : QPCallOn(max)

SpecSk == InitSk /\ [][NextSk]_vars

(***************************************************************************)
(* TestExhaustive: every string of ExLength bytes over ExAlphabet that     *)
(* neither ends in '=' nor holds "==", copied through a strict reader.     *)
(***************************************************************************)
\* "0A \r\n="
ExAlphabet == {48, 65, 32, 13, 10, 61}

ExLength == 6

\* the buffer of bufio.NewReader
DefaultBufSize == 4096

\* io.Copy into a bytes.Buffer reads with at least this much room in p
MinRead == 512

\* strings.Contains
Contains(s, sub) ==
  \E i \in 0..(Len(s) - Len(sub)) : SubSeq(s, i + 1, i + Len(sub)) = sub

ExInputs ==
  {s \in [1..ExLength -> ExAlphabet] : s[ExLength] # 61 /\ ~Contains(s, <<61, 61>>)}

InitEx ==
  /\ qpIn \in ExInputs
  /\ qpBr = NewBufio(qpIn, ErrEOF, DefaultBufSize)
  /\ qpRd = NewStrictReader
  /\ qpOut = <<>>
  /\ qpRet = NoCall
  /\ U8Idle
  /\ REIdle
  /\ MTIdle

NextEx == QPCall(MinRead)

SpecEx == InitEx /\ [][NextEx]_vars

(***************************************************************************)
(* Lines that fit the read-ahead buffer: any input over a small alphabet,  *)
(* either constructor, read with io.Copy or one byte at a time.            *)
(***************************************************************************)
\* '=', a hex digit, a letter that is no hex digit, space, CR, LF
LnAlphabet == {61, 65, 90, 32, 13, 10}

LnInputs == SeqsUpTo(LnAlphabet, LnMaxLen)

InitLn ==
  /\ qpIn \in LnInputs
  /\ qpBr = NewBufio(qpIn, ErrEOF, DefaultBufSize)
  /\ qpRd \in {NewStrictReader, NewReader}
  /\ qpOut = <<>>
  /\ qpRet = NoCall
  /\ U8Idle
  /\ REIdle
  /\ MTIdle

\* a Read into io.Copy's buffer, or into a caller's buffer of one byte
NextLn == \E max \in {1, MinRead} : QPCall(max)

SpecLn == InitLn /\ [][NextLn]_vars

(***************************************************************************)
(* A caller that reads until Read returns an error and never gives up,     *)
(* over read-ahead buffers of every small size and of bufio's own size.    *)
(***************************************************************************)
TmSizes == (1..BufSize) \cup {DefaultBufSize}

InitTm ==
  /\ qpIn \in SeqsUpTo(QPAlphabet, TmMaxLen)
  /\ \E e \in {ErrEOF, ErrIO}, size \in TmSizes : qpBr = NewBufio(qpIn, e, size)
  /\ qpRd \in {NewStrictReader, NewReader}
  /\ qpOut = <<>>
  /\ qpRet = NoCall
  /\ U8Idle
  /\ REIdle
  /\ MTIdle

NextTm == \E max \in 1..QPMaxCap : QPCall(max)

SpecTm == InitTm /\ [][NextTm]_vars /\ WF_vars(NextTm)

(***************************************************************************)
(* The rejoiner's assembly buffer under test: inputs made of lead and      *)
(* continuation bytes and line ends that fill own, read with a caller      *)
(* buffer of one byte, of the size of own, and of more than buf holds.     *)
(* u8Ret keeps, besides what Read returned, what it asked its upstream     *)
(* for (asked, 0: no upstream read), the bytes written to p (emitted) and  *)
(* held in own (held) before that, and whether the upstream had returned   *)
(* an error before the call (hadErr).                                      *)
(***************************************************************************)
\* a lead byte with three and with two continuation bytes, four
\* continuation bytes, one, CR LF, LF, a letter, a lead byte
AsTokens ==
  {<<195, 164, 164, 164>>, <<195, 164, 164>>, <<164, 164, 164, 164>>, <<164>>,
   <<13, 10>>, <<10>>, <<97>>, <<195>>}

AsInputs == {Flatten(ts) : ts \in SeqsUpTo(AsTokens, AsMaxTokens)}

\* caller buffer lengths
AsCaps == {1, OwnLen, AsBigCap}

\* the most bytes the upstream hands over in one read
AsChunks == {1, 2, BufLen}

InitAs ==
  /\ u8In \in AsInputs
  /\ u8Src = [data |-> u8In, err |-> ErrEOF]
  /\ u8Q = NewQPUTF8
  /\ u8Out = <<>>
  /\ u8Ret = NoCall
  /\ QPIdle
  /\ REIdle
  /\ MTIdle

\* one Read(p) with len(p) = max; the caller reads until Read returns an error
AsCall(max) ==
  /\ u8Ret.err = NilErr
  /\ \E k \in AsChunks, together \in BOOLEAN :
       \E r \in {U8Read(u8Q, max, u8Src.data, u8Src.err, k, together)} :
          /\ u8Q' = r.q
          /\ u8Src' = [u8Src EXCEPT !.data = r.rest]
          /\ u8Out' = u8Out \o r.p
          /\ u8Ret' = [max |-> max, n |-> Len(r.p), err |-> r.err,
                       asked |-> r.asked, emitted |-> r.emitted, held |-> r.held,
                       hadErr |-> u8Q.err # NilErr]
  /\ UNCHANGED <<u8In, qpVars, reVars, mtVars>>

NextAs == \E max \in AsCaps : AsCall(max)

SpecAs == InitAs /\ [][NextAs]_vars

\* a caller that reads with one buffer length in all its calls (io.Copy,
\* ioutil.ReadAll): lengths below, at and above the size of own
AsFixedCaps == (1..OwnLen) \cup {AsBigCap}

AsCallFixed(max) ==
  /\ u8Ret.max \in {0, max}
  /\ AsCall(max)

NextAsFixed == \E max \in AsFixedCaps : AsCallFixed(max)

InitAsFair ==
  /\ InitAs
  /\ \E ts \in SeqsUpTo(AsTokens, AsFairMaxTokens) : u8In = Flatten(ts)

\* the caller goes on calling Read until it gets an error
SpecAsFair == InitAsFair /\ [][NextAsFixed]_vars /\ WF_vars(NextAsFixed)

(***************************************************************************)
(* The composite reader under test: NewUTF8Reader over quoted-printable    *)
(* text made of escapes of a lead and a continuation byte, line ends, '='  *)
(* and a letter, read with any caller buffer length.                       *)
(***************************************************************************)
\* One whole qpUTF8.Read(p) with len(p) = max whose upstream q.r is the
\* lenient Reader r over the read-ahead buffer br; chunk is what the inner
\* Read handed over (nothing when it was not called).
UTF8Read(q, r, br, max) ==
  Let(ReadBefore(q, max), LAMBDA b :
    IF b.done
    THEN [q |-> b.q, p |-> b.p, err |-> b.err, r |-> r, br |-> br,
          chunk |-> <<>>, inner |-> NilErr]
    ELSE Let(readLen(b.q, b.p, max), LAMBDA n :
      IF n > 0
      THEN Let(Read(r, br, n), LAMBDA m :
             Let(ReadAfter(b.q, b.p, max, TRUE, m.p, m.err), LAMBDA a :
               [q |-> a.q, p |-> a.p, err |-> a.err, r |-> m.r, br |-> m.br,
                chunk |-> m.p, inner |-> m.err]))
      ELSE Let(ReadAfter(b.q, b.p, max, FALSE, <<>>, NilErr), LAMBDA a :
             [q |-> a.q, p |-> a.p, err |-> a.err, r |-> r, br |-> br,
              chunk |-> <<>>, inner |-> NilErr])))

\* "=C3" and "=A4" (the two bytes of a-umlaut), CR, LF, '=', 'Z'
CQTokens == {<<61, 67, 51>>, <<61, 65, 52>>, <<13>>, <<10>>, <<61>>, <<90>>}

CQInputs == {Flatten(ts) : ts \in SeqsUpTo(CQTokens, CQMaxTokens)}

\* NewUTF8Reader(strings.NewReader(in)): a new rejoiner over a new lenient
\* Reader; qpOut collects what the inner Reader hands over
InitCQ ==
  /\ qpIn \in CQInputs
  /\ qpBr = NewBufio(qpIn, ErrEOF, DefaultBufSize)
  /\ qpRd = NewReader
  /\ qpOut = <<>>
  /\ qpRet = NoCall
  /\ u8In = <<>>
  /\ u8Src = [data |-> <<>>, err |-> ErrEOF]
  /\ u8Q = NewQPUTF8
  /\ u8Out = <<>>
  /\ u8Ret = NoCall
  /\ REIdle
  /\ MTIdle

\* the caller reads until Read returns an error (ioutil.ReadAll)
CQCall(max) ==
  /\ u8Ret.err = NilErr
  /\ \E m \in {UTF8Read(u8Q, qpRd, qpBr, max)} :
       /\ u8Q' = m.q
       /\ qpRd' = m.r
       /\ qpBr' = m.br
       /\ qpOut' = qpOut \o m.chunk
       /\ qpRet' = [max |-> max, n |-> Len(m.chunk), err |-> m.inner]
       /\ u8Out' = u8Out \o m.p
       /\ u8Ret' = [max |-> max, n |-> Len(m.p), err |-> m.err]
  /\ UNCHANGED <<qpIn, u8In, u8Src, reVars, mtVars>>

NextCQ == \E max \in (1..CQMaxCap) \cup {MinRead} : CQCall(max)

SpecCQ == InitCQ /\ [][NextCQ]_vars

(***************************************************************************)
(* The error record under test: any sequence of add, addUnrecover, Error   *)
(* and selector calls on a new RErr.                                       *)
(***************************************************************************)
\* nil and the errors passed to the record
ReErrors == {NilErr, ErrEOF, ErrUnexpectedEOF, ErrBufferFull, ErrInvalidHex(13)}

InitRE ==
  /\ REIdle
  /\ MTIdle
  /\ QPIdle
  /\ U8Idle

\* gerr.add(e)
ReAdd(e) ==
  /\ reG' = add(reG, e)
  /\ rePrev' = reG
  /\ reOp' = ReCall("add", e, FALSE, NilErr, "")
  /\ UNCHANGED <<qpVars, u8Vars, mtVars>>

\* gerr.addUnrecover(e)
ReAddUnrecover(e) ==
  /\ reG' = addUnrecover(reG, e)
  /\ rePrev' = reG
  /\ reOp' = ReCall("addUnrecover", e, FALSE, NilErr, "")
  /\ UNCHANGED <<qpVars, u8Vars, mtVars>>

\* gerr.Error()
ReError ==
  /\ reG' = reG
  /\ rePrev' = reG
  /\ reOp' = ReCall("Error", NilErr, FALSE, NilErr, Error(reG))
  /\ UNCHANGED <<qpVars, u8Vars, mtVars>>

\* rd.Fn() of a Reader made by NewStrictReader or by NewReader around the record
ReFn(strict) ==
  /\ reG' = reG
  /\ rePrev' = reG
  /\ reOp' = ReCall("Fn", NilErr, strict, Fn([getReader(strict) EXCEPT !.gerr = reG]), "")
  /\ UNCHANGED <<qpVars, u8Vars, mtVars>>

NextRE ==
  \/ \E e \in ReErrors : ReAdd(e)
  \/ \E e \in ReErrors : ReAddUnrecover(e)
  \/ ReError
  \/ \E strict \in BOOLEAN : ReFn(strict)

SpecRE == InitRE /\ [][NextRE]_vars

(***************************************************************************)
(* Claims about the quoted-printable Reader.                               *)
(***************************************************************************)
\* some '=' sits in the last two bytes of a piece cut by a full buffer and
\* more input follows: the escape is split across two line reads
SeamSplitsEscape(in) ==
  \E i \in 1..Len(Pieces(NewBufio(in, ErrEOF, BufSize))) :
    LET s == Pieces(NewBufio(in, ErrEOF, BufSize))[i]
        n == Len(s.line)
    IN /\ s.err = ErrBufferFull
       /\ s.br.data # <<>>
       /\ (s.line[n] = 61 \/ (n >= 2 /\ s.line[n - 1] = 61))

\* C1: seam independence of the lenient reader.  When an '=' and the up to
\* two bytes after it are split across two line reads by a full buffer, the
\* decoded output equals the output through a buffer that holds the whole
\* line: for a hex escape, a soft break and an invalid escape alike.
C1_SeamIndependence ==
  (QPDone /\ ~qpRd.strict /\ SeamSplitsEscape(qpIn))
    => qpOut = Decode(FALSE, qpIn, qpBr.err, Len(qpIn) + 1).out

\* no '=', no byte below 0x20 other than tab, CR, LF, no byte above 0x7E
Clean(in) ==
  \A i \in 1..Len(in) :
    in[i] # 61 /\ (in[i] \in {9, 13, 10} \/ (in[i] >= 32 /\ in[i] <= 126))

\* C7 as stated: strict decode is the identity on clean input, inputs with
\* spaces or tabs before a line end or before end-of-stream included.
C7_StrictIdentity == (QPDone /\ qpRd.strict /\ Clean(qpIn)) => qpOut = qpIn

\* from position i on, only spaces, tabs and CRs up to the LF or the end
RECURSIVE WsRunToEnd(_, _)
WsRunToEnd(in, i) ==
  IF i > Len(in) THEN TRUE
  ELSE IF in[i] = 10 THEN TRUE
  ELSE IF in[i] \in {32, 9, 13} THEN WsRunToEnd(in, i + 1)
  ELSE FALSE

\* some space, tab or CR stands in the white space that ends a line or the
\* input, and is not the CR of the line's CRLF
TrailingWhitespace(in) ==
  \E i \in 1..Len(in) :
    /\ in[i] \in {32, 9, 13}
    /\ WsRunToEnd(in, i + 1)
    /\ ~(in[i] = 13 /\ i < Len(in) /\ in[i + 1] = 10)

\* the read-ahead buffer filled up before a line end was found
BufferFilled(in) ==
  \E i \in 1..Len(Pieces(NewBufio(in, ErrEOF, BufSize))) :
    Pieces(NewBufio(in, ErrEOF, BufSize))[i].err = ErrBufferFull

\* C7, amended: strict decode is the identity on clean input in which no line
\* ends in white space (space, tab or CR before the LF, the CRLF or the end
\* of the input) and no line fills the read-ahead buffer.
C7_StrictIdentityAmended ==
  (QPDone /\ qpRd.strict /\ Clean(qpIn) /\ ~TrailingWhitespace(qpIn)
     /\ ~BufferFilled(qpIn))
    => (qpOut = qpIn /\ qpRet.err = qpBr.err)

\* C7's case: a strict reader has copied a clean input of several lines
C7_Witness ==
  /\ QPDone /\ qpRd.strict /\ Clean(qpIn) /\ ~TrailingWhitespace(qpIn)
  /\ ~BufferFilled(qpIn)
  /\ Len(qpIn) = QPMaxLen
  /\ \E i, j \in 1..Len(qpIn) : i < j /\ qpIn[i] = 13 /\ qpIn[i + 1] = 10 /\ qpIn[j] = 10
  /\ qpOut = qpIn

\* C8 as stated: the bytes a strict reader emits equal the bytes a lenient
\* reader emits for the same input.
C8_StrictEqualsLenient ==
  (QPDone /\ qpRd.strict) => qpOut = Decode(FALSE, qpIn, qpBr.err, BufSize).out

\* C8, amended: when no line fills the read-ahead buffer, the bytes a strict
\* reader emits are a prefix of the bytes a lenient reader emits, and all of
\* them when the strict reader ends with the upstream's error: the strict
\* reader stops after the line in which the first recoverable error is
\* recorded.
C8_StrictPrefixOfLenient ==
  (QPDone /\ qpRd.strict /\ ~BufferFilled(qpIn))
    => /\ IsPrefix(qpOut, Decode(FALSE, qpIn, qpBr.err, BufSize).out)
       /\ (qpRet.err = qpBr.err => qpOut = Decode(FALSE, qpIn, qpBr.err, BufSize).out)

\* C8's case: a strict reader stopped at a recoverable error with a proper,
\* non-empty prefix of the lenient output that holds the '=' of a broken escape
C8_Witness ==
  /\ QPDone /\ qpRd.strict /\ ~BufferFilled(qpIn)
  /\ qpRet.err \notin {NilErr, qpBr.err}
  /\ \E i \in 1..Len(qpOut) : qpOut[i] = 61
  /\ Len(qpOut) < Len(Decode(FALSE, qpIn, qpBr.err, BufSize).out)

\* C9: at the moment Read first returns a non-nil error, nothing remains
\* pending inside the decoder: no line bytes and no bytes in the straddle
\* buffer, for every length of the caller's buffer.
C9_DataBeforeError == QPDone => (qpRd.lastLen = 0 /\ Len(qpRd.line) = 0)

\* C10: a lenient reader returns nil or the error of the upstream, never a
\* recoverable error.
C10_LenientErrorSurface ==
  ~qpRd.strict => (qpRet.err \in {NilErr, qpBr.err} /\ (QPDone => qpBr.data = <<>>))

\* C10's case: a lenient reader recorded recoverable errors of several kinds
\* and ended with the upstream's error
C10_Witness ==
  /\ QPDone /\ ~qpRd.strict /\ qpRet.err = qpBr.err
  /\ Len(qpRd.gerr.errs) >= 2
  /\ \E i \in 1..Len(qpRd.gerr.errs) : qpRd.gerr.errs[i].kind = ErrInvalidUnescaped(1).kind
  /\ \E i \in 1..Len(qpRd.gerr.errs) : qpRd.gerr.errs[i].kind = ErrInvalidHex(1).kind

\* C11: the error a strict reader's Read returns is the first recoverable
\* error recorded whenever one was recorded, even with end-of-stream or
\* another fatal error recorded too; the fatal error only when none was.
C11_StrictErrorSurface ==
  (qpRd.strict /\ qpRet.err # NilErr)
    => /\ Len(qpRd.gerr.errs) > 0 => qpRet.err = qpRd.gerr.errs[1]
       /\ Len(qpRd.gerr.errs) = 0 => qpRet.err = qpRd.gerr.err

\* C11's case: the input ends in '=' and one hex digit; end-of-stream is
\* recorded as the fatal error and Read returns io.ErrUnexpectedEOF
C11_Witness ==
  /\ qpRd.strict
  /\ Len(qpIn) >= 2 /\ qpIn[Len(qpIn) - 1] = 61 /\ qpIn[Len(qpIn)] = 65
  /\ qpRd.gerr.err = ErrEOF
  /\ qpRd.gerr.errs = <<ErrUnexpectedEOF>>
  /\ qpRet.err = ErrUnexpectedEOF

\* errStr of TestExhaustive: the message of the error io.Copy returned, every
\* "invalid bytes after =: ..." message cut down to its head
errStr(e) ==
  IF e.kind = ErrInvalidAfterEq(<<>>).kind THEN "invalid bytes after ="
  ELSE ErrorString(e)

\* C16: for every string of length 6 over {'0', 'A', ' ', CR, LF, '='} that
\* does not end in '=' and holds no "==", a strict copy ends with
\* end-of-stream alone or with an error of one of six categories; "invalid
\* hex byte 0x20" only if the input holds "=0 ", "=A " or "= ", "invalid hex
\* byte 0x3d" only if it holds "=0=" or "=A="; the outcome is a function of
\* the input.
C16_ExhaustiveOracle ==
  QPDone
    => /\ \/ qpRet.err = ErrEOF
          \/ errStr(qpRet.err) \in
               {"invalid bytes after =",
                "quotedprintable: invalid hex byte 0x0a",
                "quotedprintable: invalid hex byte 0x0d",
                "quotedprintable: invalid hex byte 0x20",
                "quotedprintable: invalid hex byte 0x3d",
                "unexpected EOF"}
       /\ errStr(qpRet.err) = "quotedprintable: invalid hex byte 0x20"
            => \/ Contains(qpIn, <<61, 48, 32>>)
               \/ Contains(qpIn, <<61, 65, 32>>)
               \/ Contains(qpIn, <<61, 32>>)
       /\ errStr(qpRet.err) = "quotedprintable: invalid hex byte 0x3d"
            => \/ Contains(qpIn, <<61, 48, 61>>)
               \/ Contains(qpIn, <<61, 65, 61>>)
       /\ \E d \in {Decode(TRUE, qpIn, ErrEOF, DefaultBufSize)} :
            qpOut = d.out /\ qpRet.err = d.err

\* C16's case: a copy of an input with "=0=" has ended with "invalid hex
\* byte 0x3d"
C16_Witness ==
  /\ QPDone
  /\ Len(qpIn) = ExLength /\ qpIn[ExLength] # 61 /\ ~Contains(qpIn, <<61, 61>>)
  /\ Contains(qpIn, <<61, 48, 61>>)
  /\ errStr(qpRet.err) = "quotedprintable: invalid hex byte 0x3d"

(***************************************************************************)
(* The line rules as the claims word them, for a whole input.              *)
(***************************************************************************)
\* the lines of an input: each ends with its LF, the last one may have none
RECURSIVE RuleLines(_)
RuleLines(in) ==
  IF in = <<>> THEN <<>>
  ELSE LET at == IndexLF(in, 1, Len(in))
       IN IF at = 0 THEN <<in>>
          ELSE <<SubSeq(in, 1, at)>> \o RuleLines(SubSeq(in, at + 1, Len(in)))

\* a line without its trailing bytes from {space, tab, CR, LF}
RECURSIVE RuleTrim(_)
RuleTrim(line) ==
  IF line # <<>> /\ line[Len(line)] \in {32, 9, 13, 10}
  THEN RuleTrim(SubSeq(line, 1, Len(line) - 1))
  ELSE line

\* the terminator a line keeps: CRLF, LF or none
RuleTerminator(line) ==
  IF Len(line) >= 2 /\ line[Len(line) - 1] = 13 /\ line[Len(line)] = 10 THEN <<13, 10>>
  ELSE IF Len(line) >= 1 /\ line[Len(line)] = 10 THEN <<10>>
  ELSE <<>>

RuleIsHex(b) == (b >= 48 /\ b <= 57) \/ (b >= 65 /\ b <= 70) \/ (b >= 97 /\ b <= 102)

RuleHexValue(b) ==
  IF b <= 57 THEN b - 48 ELSE IF b <= 70 THEN b - 55 ELSE b - 87

\* the escape rule over the bytes c of one line: '=' and two hex digits give
\* one byte; any other '=' is kept, with an error that names the first
\* offending byte, or unexpected EOF with fewer than two bytes left
RECURSIVE RuleEscape(_)
RuleEscape(c) ==
  IF c = <<>> THEN [out |-> <<>>, errs |-> <<>>]
  ELSE IF c[1] = 61 /\ Len(c) >= 3 /\ RuleIsHex(c[2]) /\ RuleIsHex(c[3])
  THEN LET rest == RuleEscape(SubSeq(c, 4, Len(c)))
       IN [out |-> <<16 * RuleHexValue(c[2]) + RuleHexValue(c[3])>> \o rest.out,
           errs |-> rest.errs]
  ELSE LET rest == RuleEscape(SubSeq(c, 2, Len(c)))
           here == IF c[1] = 61
                   THEN (IF Len(c) < 3 THEN <<ErrUnexpectedEOF>>
                         ELSE IF ~RuleIsHex(c[2]) THEN <<ErrInvalidHex(c[2])>>
                         ELSE <<ErrInvalidHex(c[3])>>)
                   ELSE IF c[1] \notin {9, 13, 10} /\ (c[1] < 32 \/ c[1] > 126)
                   THEN <<ErrInvalidUnescaped(c[1])>>
                   ELSE <<>>
       IN [out |-> <<c[1]>> \o rest.out, errs |-> here \o rest.errs]

\* the trimmed line ends with '='
RuleIsSoft(line) == RuleTrim(line) # <<>> /\ RuleTrim(line)[Len(RuleTrim(line))] = 61

\* one line: a soft break gives the bytes before its '=' and an error for
\* trailing bytes other than LF or CRLF; any other line gives its trimmed
\* bytes, decoded, and its terminator
RuleLine(line) ==
  LET t == RuleTrim(line)
      after == SubSeq(line, Len(t) + 1, Len(line))
  IN IF RuleIsSoft(line)
     THEN [out |-> RuleEscape(SubSeq(t, 1, Len(t) - 1)).out,
           errs |-> (IF after = <<10>> \/ after = <<13, 10>> THEN <<>>
                     ELSE <<ErrInvalidAfterEq(after)>>)
                    \o RuleEscape(SubSeq(t, 1, Len(t) - 1)).errs]
     ELSE [out |-> RuleEscape(t).out \o RuleTerminator(line),
           errs |-> RuleEscape(t \o RuleTerminator(line)).errs]

\* a lenient copy: every line, and the first maxQPRErr errors
RECURSIVE RuleLenient(_, _)
RuleLenient(lines, i) ==
  IF i > Len(lines) THEN [out |-> <<>>, errs |-> <<>>]
  ELSE [out |-> RuleLine(lines[i]).out \o RuleLenient(lines, i + 1).out,
        errs |-> RuleLine(lines[i]).errs \o RuleLenient(lines, i + 1).errs]

\* a strict copy: the lines up to the first one with an error, and that
\* error; without one, every line and the upstream's error uerr
RECURSIVE RuleStrict(_, _, _)
RuleStrict(lines, i, uerr) ==
  IF i > Len(lines) THEN [out |-> <<>>, err |-> uerr]
  ELSE IF RuleLine(lines[i]).errs # <<>>
  THEN [out |-> RuleLine(lines[i]).out, err |-> RuleLine(lines[i]).errs[1]]
  ELSE [out |-> RuleLine(lines[i]).out \o RuleStrict(lines, i + 1, uerr).out,
        err |-> RuleStrict(lines, i + 1, uerr).err]

\* the copy of the input in hand gave the bytes of the rule
RuleBytesAgree ==
  IF qpRd.strict THEN qpOut = RuleStrict(RuleLines(qpIn), 1, qpBr.err).out
  ELSE qpOut = RuleLenient(RuleLines(qpIn), 1).out

\* the copy of the input in hand recorded and returned the errors of the rule
RuleErrorsAgree ==
  IF qpRd.strict THEN qpRet.err = RuleStrict(RuleLines(qpIn), 1, qpBr.err).err
  ELSE /\ qpRet.err = qpBr.err
       /\ qpRd.gerr.errs = SubSeq(RuleLenient(RuleLines(qpIn), 1).errs, 1,
                                  Min(4, Len(RuleLenient(RuleLines(qpIn), 1).errs)))

RuleHasSoftLine(in) == \E i \in 1..Len(RuleLines(in)) : RuleIsSoft(RuleLines(in)[i])

\* C13: of a line whose bytes, right-trimmed of space, tab, CR and LF, end
\* with '=', neither that '=' nor the trimmed bytes nor the terminator are
\* emitted; "invalid bytes after =" is recorded exactly when the bytes after
\* the '=' are not LF or CRLF.  A final '=' before end-of-stream is dropped,
\* with that error (of no bytes) from a strict reader and none from a lenient
\* one.
C13_SoftLineBreak ==
  (QPDone /\ RuleHasSoftLine(qpIn)) => (RuleBytesAgree /\ RuleErrorsAgree)

\* C14: of every line that fits the read-ahead buffer (the buffer holds it
\* with room to spare) and is no soft break, the bytes emitted are the
\* line without its trailing spaces, tabs, CRs and
\* LF, decoded, followed by CRLF if the line ended in CRLF, by LF if it
\* ended in LF only, and by nothing if it had no terminator.
C14_TrailingWhitespace ==
  (QPDone /\ ~RuleHasSoftLine(qpIn)) => RuleBytesAgree

\* C14's case: a lenient copy of a line with a space before its CRLF and of
\* an unterminated line with a space at its end
C14_Witness ==
  /\ QPDone /\ ~qpRd.strict /\ qpBr.size = DefaultBufSize
  /\ Len(qpIn) > 4 /\ qpIn[Len(qpIn)] = 32
  /\ SubSeq(qpIn, 1, 4) = <<65, 32, 13, 10>>
  /\ ~RuleHasSoftLine(qpIn)
  /\ SubSeq(qpOut, 1, 3) = <<65, 13, 10>>

\* C15: within a line, '=' and two hex digits give the one byte 16*hi+lo;
\* any other '=' is emitted as it is, the bytes after it are scanned as
\* ordinary input, and an error is recorded: invalid hex byte with the first
\* offending byte, or unexpected EOF when fewer than two bytes follow.
C15_EscapeRule ==
  (QPDone /\ Contains(qpIn, <<61>>) /\ ~RuleHasSoftLine(qpIn))
    => (RuleBytesAgree /\ RuleErrorsAgree)

(***************************************************************************)
(* Claims about the rejoiner.                                              *)
(***************************************************************************)
\* C2: chunking independence.  For every input, every split of it into
\* upstream reads and every sequence of caller buffer lengths >= 1, the bytes
\* returned up to end-of-stream equal the output obtained with one caller
\* buffer larger than the input; a release that fills the caller's buffer
\* loses, duplicates and reorders nothing.
C2_ChunkingIndependence == U8Done => u8Out = Rejoin(u8In, u8Src.err)

\* the excision rule as C3 words it: after a lead byte and zero or one
\* continuation bytes, one line break (LF or CRLF) that a continuation byte
\* follows is removed; nothing else is.
BreakLen(s) ==
  IF Len(s) >= 2 /\ s[1] = 10 /\ IsCont(s[2]) THEN 1
  ELSE IF Len(s) >= 3 /\ s[1] = 13 /\ s[2] = 10 /\ IsCont(s[3]) THEN 2
  ELSE 0

RECURSIVE ExciseRule(_)
ExciseRule(s) ==
  IF s = <<>> THEN <<>>
  ELSE IF IsLead(s[1]) /\ BreakLen(Drop(s, 1)) > 0
       THEN <<s[1]>> \o ExciseRule(Drop(s, 1 + BreakLen(Drop(s, 1))))
  ELSE IF IsLead(s[1]) /\ Len(s) >= 2 /\ IsCont(s[2]) /\ BreakLen(Drop(s, 2)) > 0
       THEN <<s[1], s[2]>> \o ExciseRule(Drop(s, 2 + BreakLen(Drop(s, 2))))
  ELSE <<s[1]>> \o ExciseRule(Tail(s))

\* the inputs C3 speaks about: no line break after a lead byte and two or
\* more continuation bytes
C3Covered(s) ==
  \A i \in 1..Len(s) :
    (IsLead(s[i]) /\ i + 3 <= Len(s) /\ IsCont(s[i + 1]) /\ IsCont(s[i + 2]))
      => s[i + 3] \notin {13, 10}

\* C3: excision rule.  A line break between a lead byte (with zero or one
\* continuation bytes) and a continuation byte is omitted and every other byte
\* is kept in input order; a bare CR, a doubled LF, LF CR, and a line break
\* before a lead byte or an ASCII byte stay in place.
C3_ExcisionRule == (U8Done /\ C3Covered(u8In)) => u8Out = ExciseRule(u8In)

\* C4: deletion only.  Read to end-of-stream, the output is a subsequence of
\* the input and every deleted byte is CR or LF, so every other byte appears
\* as often and in the same order as in the input.
C4_DeletionOnly == U8Done => IsDeletionOf(u8Out, u8In, {13, 10})

\* C5: at an upstream error every byte still held in the assembly buffer
\* (states Start, SawCR, SawLF, InCont, interrupted Release) has been
\* delivered before the error is returned.
C5_HeldBytesBeforeError == U8Done => u8Q.pco - u8Q.cco = 0

\* C6: a Read with len(p) >= 1, on the decoder and on the rejoiner, never
\* returns (0, nil): it returns a byte or an error.
C6_ReadProgress ==
  /\ u8Ret.max >= 1 => ~(u8Ret.n = 0 /\ u8Ret.err = NilErr)
  /\ qpRet.max >= 1 => ~(qpRet.n = 0 /\ qpRet.err = NilErr)

(***************************************************************************)
(* Claims about the error record.                                          *)
(***************************************************************************)
\* C12 as stated: the strict selector returns the fatal error if one is
\* set, otherwise the first recoverable error, otherwise none; the lenient
\* selector returns only the fatal error.
C12_SelectorFatalFirst ==
  reOp.op = "Fn"
    => reOp.err = (IF ~reOp.strict \/ reG.err # NilErr THEN reG.err
                   ELSE IF Len(reG.errs) > 0 THEN reG.errs[1] ELSE NilErr)

\* C12, amended: the strict selector returns the first recoverable error if
\* one is recorded, otherwise the fatal error, otherwise none; the lenient
\* selector returns only the fatal error and ignores the recoverable ones.
C12_SelectorRecoverableFirst ==
  reOp.op = "Fn"
    => reOp.err = (IF ~reOp.strict THEN reG.err
                   ELSE IF Len(reG.errs) > 0 THEN reG.errs[1] ELSE reG.err)

\* C12's case: with a fatal error set and recoverable errors recorded, the
\* strict selector has returned the first recoverable error
C12_Witness ==
  /\ reOp.op = "Fn" /\ reOp.strict
  /\ reG.err = ErrEOF
  /\ Len(reG.errs) >= 2 /\ reG.errs[1] # reG.errs[2]
  /\ reOp.err = reG.errs[1]

\* the messages of errs in their order, '|' between any two of them
RECURSIVE JoinedWithBar(_)
JoinedWithBar(errs) ==
  IF Len(errs) = 1 THEN ErrorString(errs[1])
  ELSE JoinedWithBar(SubSeq(errs, 1, Len(errs) - 1)) \o "|" \o ErrorString(errs[Len(errs)])

\* C17: after any sequence of add and addUnrecover calls Error() returns the
\* fatal error's message if a fatal error is set, otherwise the messages of
\* the recorded errors in recording order joined by '|', otherwise "<nil>".
C17_ErrorRendering ==
  reOp.op = "Error"
    => reOp.text = (IF reG.err # NilErr THEN ErrorString(reG.err)
                    ELSE IF Len(reG.errs) > 0 THEN JoinedWithBar(reG.errs)
                    ELSE "<nil>")

\* C17's case: two errors recorded and no fatal one, rendered with '|'
C17_Witness ==
  /\ reOp.op = "Error"
  /\ reG = [errs |-> <<ErrUnexpectedEOF, ErrInvalidHex(13)>>, err |-> NilErr]
  /\ reOp.text = "unexpected EOF|quotedprintable: invalid hex byte 0x0d"

\* C18: the number of recorded errors stays between 0 and 4; add of nil, and
\* add with 4 recorded, change nothing; any other add appends; the recorded
\* errors keep their order and the first one is never replaced.
C18_CapAndOrder ==
  /\ Len(reG.errs) >= 0 /\ Len(reG.errs) <= 4
  /\ IsPrefix(rePrev.errs, reG.errs)
  /\ reOp.op = "add"
       => IF reOp.arg = NilErr \/ Len(rePrev.errs) = 4 THEN reG = rePrev
          ELSE reG.errs = Append(rePrev.errs, reOp.arg)

\* C18's case: an add on a full record of distinct errors left it as it was
C18_Witness ==
  /\ reOp.op = "add" /\ reOp.arg # NilErr
  /\ Len(rePrev.errs) = 4
  /\ reOp.arg # rePrev.errs[1] /\ rePrev.errs[1] # rePrev.errs[2]
  /\ reG = rePrev

\* C19: a fatal error, once set, is never cleared: addUnrecover of nil
\* changes nothing, addUnrecover of an error puts that error in the fatal
\* slot, and add never writes the fatal slot.
C19_FatalPersists ==
  /\ rePrev.err # NilErr => reG.err # NilErr
  /\ reOp.op = "addUnrecover"
       => IF reOp.arg = NilErr THEN reG = rePrev
          ELSE reG = [rePrev EXCEPT !.err = reOp.arg]
  /\ reOp.op = "add" => reG.err = rePrev.err

\* C19's case: addUnrecover of nil on a record whose fatal error is set, with
\* recoverable errors recorded after it was set
C19_Witness ==
  /\ reOp.op = "addUnrecover" /\ reOp.arg = NilErr
  /\ rePrev.err = ErrEOF /\ Len(rePrev.errs) > 0
  /\ reG.err = ErrEOF

(***************************************************************************)
(* Claims about the composite reader.                                      *)
(***************************************************************************)
\* C20: when a copy through NewUTF8Reader(r) has ended, its output is the
\* rejoiner's output for the lenient quoted-printable decoding of r: a line
\* break between the escapes of one UTF-8 sequence is gone, soft breaks are
\* gone, and LF CR between the escapes stays.
C20_Composite ==
  U8Done => u8Out = Rejoin(Decode(FALSE, qpIn, ErrEOF, DefaultBufSize).out, ErrEOF)
(***************************************************************************)
(* Media types.  A Go string is the sequence of its characters (runes); a  *)
(* Go map is a function whose domain is its set of keys, <<>> the empty    *)
(* map.  Positions are 1-based, 0 standing for Go's -1 (not found).        *)
(***************************************************************************)
\* unicode.IsSpace
IsSpace(r) ==
  r \in {9, 10, 11, 12, 13, 32, 133, 160, 5760, 8232, 8233, 8239, 8287, 12288}
    \cup (8192..8202)

\* strings.TrimLeftFunc(s, unicode.IsSpace)
RECURSIVE TrimLeftSpace(_)
TrimLeftSpace(s) ==
  IF s # <<>> /\ IsSpace(s[1]) THEN TrimLeftSpace(Tail(s)) ELSE s

RECURSIVE TrimRightSpace(_)
TrimRightSpace(s) ==
  IF s # <<>> /\ IsSpace(s[Len(s)]) THEN TrimRightSpace(Take(s, Len(s) - 1)) ELSE s

\* strings.TrimSpace
TrimSpace(s) == TrimRightSpace(TrimLeftSpace(s))

\* unicode.ToLower of one character: the ASCII letters, and U+0100 (the one
\* character outside ASCII the inputs use that has a lower-case form)
ToLowerRune(r) ==
  IF r >= 65 /\ r <= 90 THEN r + 32 ELSE IF r = 256 THEN 257 ELSE r

\* strings.ToLower
ToLower(s) == [i \in 1..Len(s) |-> ToLowerRune(s[i])]

\* strings.Index(s, string(c)) for a one-character string
RECURSIVE IndexRune(_, _, _)
IndexRune(s, c, i) ==
  IF i > Len(s) THEN 0 ELSE IF s[i] = c THEN i ELSE IndexRune(s, c, i + 1)

\* a token character of RFC 2045: printable ASCII but space and the tspecials
\* ( ) < > @ , ; : \ " / [ ] ? =
isTokenChar(r) ==
  /\ r > 32
  /\ r < 127
  /\ r \notin {40, 41, 60, 62, 64, 44, 59, 58, 92, 34, 47, 91, 93, 63, 61}

isNotTokenChar(r) == ~isTokenChar(r)

\* strings.IndexFunc(v, isNotTokenChar)
RECURSIVE IndexNotToken(_, _)
IndexNotToken(v, i) ==
  IF i > Len(v) THEN 0
  ELSE IF isNotTokenChar(v[i]) THEN i ELSE IndexNotToken(v, i + 1)

\* a token: one or more token characters
isToken(s) == s # <<>> /\ IndexNotToken(s, 1) = 0

\* consumeToken: the longest prefix of token characters, and the rest
consumeToken(v) ==
  LET notPos == IndexNotToken(v, 1)
  IN IF notPos = 0 THEN [token |-> v, rest |-> <<>>]
     ELSE IF notPos = 1 THEN [token |-> <<>>, rest |-> v]
     ELSE [token |-> Take(v, notPos - 1), rest |-> Drop(v, notPos - 1)]

\* the loop of consumeValue over a quoted-string: rest is the text after the
\* opening quote, idx the position looked at, v the whole text
RECURSIVE quotedString(_, _, _, _, _)
quotedString(v, rest, idx, buffer, nextIsLiteral) ==
  IF idx > Len(rest) THEN [value |-> <<>>, rest |-> v]
  ELSE IF nextIsLiteral
  THEN quotedString(v, rest, idx + 1, Append(buffer, rest[idx]), FALSE)
  ELSE IF rest[idx] = 34 THEN [value |-> buffer, rest |-> Drop(rest, idx)]
  ELSE IF rest[idx] = 92 THEN quotedString(v, rest, idx + 1, buffer, TRUE)
  ELSE IF rest[idx] # 13 /\ rest[idx] # 10
  THEN quotedString(v, rest, idx + 1, Append(buffer, rest[idx]), FALSE)
  ELSE [value |-> <<>>, rest |-> v]

\* consumeValue: a token or a quoted-string, de-quoted and un-escaped
consumeValue(v) ==
  IF v = <<>> THEN [value |-> <<>>, rest |-> <<>>]
  ELSE IF v[1] # 34
  THEN [value |-> consumeToken(v).token, rest |-> consumeToken(v).rest]
  ELSE quotedString(v, Tail(v), 1, <<>>, FALSE)

\* a consumeMediaParam that leaves the name in the case it was written in
consumeMediaParam_keepsCase(v) ==
  LET r1 == TrimLeftSpace(v)
      r2 == TrimLeftSpace(Tail(r1))
      tk == consumeToken(r2)
      r3 == TrimLeftSpace(tk.rest)
      r4 == TrimLeftSpace(Tail(r3))
      cv == consumeValue(r4)
  IN IF ~HasPrefix(r1, <<59>>) THEN [param |-> <<>>, value |-> <<>>, rest |-> v]
     ELSE IF tk.token = <<>> THEN [param |-> <<>>, value |-> <<>>, rest |-> v]
     ELSE IF ~HasPrefix(r3, <<61>>) THEN [param |-> <<>>, value |-> <<>>, rest |-> v]
     ELSE IF cv.value = <<>> THEN [param |-> <<>>, value |-> <<>>, rest |-> v]
     ELSE [param |-> tk.token, value |-> cv.value, rest |-> cv.rest]

\* consumeMediaParam: "; name = value" from the start of v; the name is
\* lower-cased; ("", "", v) when there is no such parameter
consumeMediaParam(v) ==
  LET r1 == TrimLeftSpace(v)
      r2 == TrimLeftSpace(Tail(r1))
      tk == consumeToken(r2)
      r3 == TrimLeftSpace(tk.rest)
      r4 == TrimLeftSpace(Tail(r3))
      cv == consumeValue(r4)
  IN IF ~HasPrefix(r1, <<59>>) THEN [param |-> <<>>, value |-> <<>>, rest |-> v]
     ELSE IF tk.token = <<>> THEN [param |-> <<>>, value |-> <<>>, rest |-> v]
     ELSE IF ~HasPrefix(r3, <<61>>) THEN [param |-> <<>>, value |-> <<>>, rest |-> v]
     ELSE IF cv.value = <<>> THEN [param |-> <<>>, value |-> <<>>, rest |-> v]
     ELSE [param |-> ToLower(tk.token), value |-> cv.value, rest |-> cv.rest]

ishex(c) == (c >= 48 /\ c <= 57) \/ (c >= 97 /\ c <= 102) \/ (c >= 65 /\ c <= 70)

unhex(c) ==
  IF c >= 48 /\ c <= 57 THEN c - 48
  ELSE IF c >= 97 /\ c <= 102 THEN c - 97 + 10
  ELSE IF c >= 65 /\ c <= 70 THEN c - 65 + 10
  ELSE 0

\* the first loop of percentHexUnescape: every '%' has two hex digits after it
RECURSIVE percentsWellFormed(_, _)
percentsWellFormed(s, i) ==
  IF i > Len(s) THEN TRUE
  ELSE IF s[i] # 37 THEN percentsWellFormed(s, i + 1)
  ELSE IF i + 2 > Len(s) \/ ~ishex(s[i + 1]) \/ ~ishex(s[i + 2]) THEN FALSE
  ELSE percentsWellFormed(s, i + 3)

\* the second loop: each %HH replaced by the byte 16*H+H
RECURSIVE percentsReplaced(_, _)
percentsReplaced(s, i) ==
  IF i > Len(s) THEN <<>>
  ELSE IF s[i] = 37
  THEN <<(unhex(s[i + 1]) * 16 + unhex(s[i + 2])) % 256>> \o percentsReplaced(s, i + 3)
  ELSE <<s[i]>> \o percentsReplaced(s, i + 1)

\* a percentHexUnescape that leaves the escapes as they are
percentHexUnescape_noDecoding(s) ==
  IF percentsWellFormed(s, 1) THEN [s |-> s, ok |-> TRUE] ELSE [s |-> <<>>, ok |-> FALSE]

\* percentHexUnescape: (decoded text, nil), or ("", error) for a '%' that two
\* hex digits do not follow
percentHexUnescape(s) ==
  IF percentsWellFormed(s, 1) THEN [s |-> percentsReplaced(s, 1), ok |-> TRUE]
  ELSE [s |-> <<>>, ok |-> FALSE]

\* decode2231Enc: the value of charset'lang'text, "" for fewer than three
\* fields and for a charset that is neither us-ascii nor utf-8
decode2231Enc(v) ==
  LET q1 == IndexRune(v, 39, 1)
      q2 == IF q1 = 0 THEN 0 ELSE IndexRune(v, 39, q1 + 1)
      charset == ToLower(Take(v, q1 - 1))
  IN IF q1 = 0 \/ q2 = 0 THEN <<>>
     ELSE IF /\ charset # <<117, 115, 45, 97, 115, 99, 105, 105>>
             /\ charset # <<117, 116, 102, 45, 56>>
     THEN <<>>
     ELSE percentHexUnescape(Drop(v, q2)).s

\* the errors of mediatype.go, by their text
mimeNoMediaType == "mime: no media type"

mimeNoSlash == "mime: expected slash after first token"

mimeTokenSlash == "mime: expected token after slash"

mimeUnexpectedContent == "mime: unexpected content after media subtype"

mimeInvalidParam == "mime: invalid media parameter"

mimeDuplicateParam == "mime: duplicate parameter name"

\* an error value: nil, an errors.New value (errs holds its text), or a
\* *PMTErr with its errs and bad
NoError == [kind |-> "nil", errs |-> <<>>, bad |-> FALSE]

errorsNew(text) == [kind |-> "errorString", errs |-> <<text>>, bad |-> FALSE]

\* &PMTErr{}
NewPMTErr == [kind |-> "PMTErr", errs |-> <<>>, bad |-> FALSE]

\* PMTErr.add
PMTErr_add(p, err) == [p EXCEPT !.errs = Append(p.errs, err)]

\* PMTErr.addUnrecover
PMTErr_addUnrecover(p, err) == [p EXCEPT !.errs = Append(p.errs, err), !.bad = TRUE]

\* an IsOkPMTError that lets only nil pass
IsOkPMTError_nilOnly(err) ==
  IF err.kind = "nil" THEN NoError ELSE err

\* IsOkPMTError: nil for nil and for a *PMTErr that is not bad, else err
IsOkPMTError(err) ==
  IF err.kind = "nil" THEN NoError
  ELSE IF err.kind = "PMTErr" /\ ~err.bad THEN NoError
  ELSE err

\* fmt.Sprint(typ, "/", subtype)
SlashJoin(typ, subtype) == typ \o <<47>> \o subtype

\* "unknown"
unknown == <<117, 110, 107, 110, 111, 119, 110>>

\* a head check that treats a head without a leading token as it treats the
\* empty input
lossyCheckMediaTypeDisposition_fatalNoToken(p, s, v) ==
  LET t1 == consumeToken(s)
      t2 == consumeToken(Tail(t1.rest))
  IN IF v = <<>> \/ t1.token = <<>>
     THEN [mediatype |-> <<>>, err |-> mimeNoMediaType,
           p |-> PMTErr_addUnrecover(p, mimeNoMediaType)]
     ELSE IF t1.rest = <<>> THEN [mediatype |-> t1.token, err |-> "", p |-> p]
     ELSE IF ~HasPrefix(t1.rest, <<47>>)
     THEN [mediatype |-> SlashJoin(t1.token, unknown), err |-> mimeNoSlash,
           p |-> PMTErr_add(p, mimeNoSlash)]
     ELSE IF t2.token = <<>>
     THEN [mediatype |-> SlashJoin(t1.token, unknown), err |-> mimeTokenSlash,
           p |-> PMTErr_add(p, mimeTokenSlash)]
     ELSE IF t2.rest # <<>>
     THEN [mediatype |-> SlashJoin(t1.token, t2.token), err |-> mimeUnexpectedContent,
           p |-> PMTErr_add(p, mimeUnexpectedContent)]
     ELSE [mediatype |-> s, err |-> "", p |-> p]

\* a head check that keeps the head as it is written when it finds an error
\* in it
lossyCheckMediaTypeDisposition_keepsHead(p, s, v) ==
  LET t1 == consumeToken(s)
      t2 == consumeToken(Tail(t1.rest))
  IN IF v = <<>>
     THEN [mediatype |-> <<>>, err |-> mimeNoMediaType,
           p |-> PMTErr_addUnrecover(p, mimeNoMediaType)]
     ELSE IF t1.token = <<>>
     THEN [mediatype |-> unknown, err |-> mimeNoMediaType,
           p |-> PMTErr_add(p, mimeNoMediaType)]
     ELSE IF t1.rest = <<>> THEN [mediatype |-> t1.token, err |-> "", p |-> p]
     ELSE IF ~HasPrefix(t1.rest, <<47>>)
     THEN [mediatype |-> s, err |-> mimeNoSlash, p |-> PMTErr_add(p, mimeNoSlash)]
     ELSE IF t2.token = <<>>
     THEN [mediatype |-> s, err |-> mimeTokenSlash, p |-> PMTErr_add(p, mimeTokenSlash)]
     ELSE IF t2.rest # <<>>
     THEN [mediatype |-> s, err |-> mimeUnexpectedContent,
           p |-> PMTErr_add(p, mimeUnexpectedContent)]
     ELSE [mediatype |-> s, err |-> "", p |-> p]

\* lossyCheckMediaTypeDisposition(p, s, v): the media type to go on with, the
\* error found ("" for nil), and p with that error added
lossyCheckMediaTypeDisposition(p, s, v) ==
  LET t1 == consumeToken(s)
      t2 == consumeToken(Tail(t1.rest))
  IN IF v = <<>>
     THEN [mediatype |-> <<>>, err |-> mimeNoMediaType,
           p |-> PMTErr_addUnrecover(p, mimeNoMediaType)]
     ELSE IF t1.token = <<>>
     THEN [mediatype |-> unknown, err |-> mimeNoMediaType,
           p |-> PMTErr_add(p, mimeNoMediaType)]
     ELSE IF t1.rest = <<>> THEN [mediatype |-> t1.token, err |-> "", p |-> p]
     ELSE IF ~HasPrefix(t1.rest, <<47>>)
     THEN [mediatype |-> SlashJoin(t1.token, unknown), err |-> mimeNoSlash,
           p |-> PMTErr_add(p, mimeNoSlash)]
     ELSE IF t2.token = <<>>
     THEN [mediatype |-> SlashJoin(t1.token, unknown), err |-> mimeTokenSlash,
           p |-> PMTErr_add(p, mimeTokenSlash)]
     ELSE IF t2.rest # <<>>
     THEN [mediatype |-> SlashJoin(t1.token, t2.token), err |-> mimeUnexpectedContent,
           p |-> PMTErr_add(p, mimeUnexpectedContent)]
     ELSE [mediatype |-> s, err |-> "", p |-> p]

\* m[k] = val on a map
MapPut(m, k, val) == [x \in DOMAIN m \cup {k} |-> IF x = k THEN val ELSE m[x]]

\* strconv of n as fmt's %d writes it
RECURSIVE Itoa(_)
Itoa(n) == IF n < 10 THEN <<48 + n>> ELSE Itoa(n \div 10) \o <<48 + (n % 10)>>

\* the loop "for n := 0; ; n++" of the stitching, for one base name: the
\* text put together so far and whether any part was found
RECURSIVE stitchParts(_, _, _, _, _)
stitchParts(pieceMap, key, n, buf, valid) ==
  LET simplePart == key \o <<42>> \o Itoa(n)
      encodedPart == simplePart \o <<42>>
  IN IF simplePart \in DOMAIN pieceMap
     THEN stitchParts(pieceMap, key, n + 1, buf \o pieceMap[simplePart], TRUE)
     ELSE IF encodedPart \in DOMAIN pieceMap
     THEN stitchParts(pieceMap, key, n + 1,
            buf \o (IF n = 0 THEN decode2231Enc(pieceMap[encodedPart])
                    ELSE percentHexUnescape(pieceMap[encodedPart]).s), TRUE)
     ELSE [buf |-> buf, valid |-> valid]

\* the body of "for key, pieceMap := range continuation" for one key: whether
\* params[key] is set, and to what
stitchOne(pieceMap, key) ==
  IF (key \o <<42>>) \in DOMAIN pieceMap
  THEN [valid |-> TRUE, buf |-> decode2231Enc(pieceMap[key \o <<42>>])]
  ELSE stitchParts(pieceMap, key, 0, <<>>, FALSE)

\* the stitching of all continuations into params
stitch(params, continuation) ==
  [k \in DOMAIN params \cup {b \in DOMAIN continuation : stitchOne(continuation[b], b).valid} |->
     IF k \in DOMAIN continuation /\ stitchOne(continuation[k], k).valid
     THEN stitchOne(continuation[k], k).buf
     ELSE params[k]]

\* what ParseMediaType returns: the media type, the params map (nilParams:
\* the map is nil) and the error
PMTReturn(mediatype, params, nilParams, gerr) ==
  [mediatype |-> mediatype, params |-> params, nilParams |-> nilParams, gerr |-> gerr]

\* the error ParseMediaType's named result gerr holds: p once it was assigned
gerrOf(p) == IF p.errs = <<>> THEN NoError ELSE p

\* a parameter loop in which a later occurrence of a name replaces the
\* earlier one
RECURSIVE parseParams_lastWins(_, _, _, _, _)
parseParams_lastWins(v, mediatype, params, continuation, p) ==
  IF TrimLeftSpace(v) = <<>>
  THEN PMTReturn(mediatype, stitch(params, continuation), FALSE, gerrOf(p))
  ELSE Let(consumeMediaParam(TrimLeftSpace(v)), LAMBDA c :
    IF c.param = <<>>
    THEN IF TrimSpace(c.rest) = <<59>>
         THEN PMTReturn(mediatype, params, FALSE, gerrOf(p))
         ELSE IF mediatype # <<>>
         THEN PMTReturn(mediatype, params, FALSE, PMTErr_add(p, mimeInvalidParam))
         ELSE PMTReturn(<<>>, <<>>, TRUE, errorsNew(mimeInvalidParam))
    ELSE IF IndexRune(c.param, 42, 1) # 0
    THEN Let(Take(c.param, IndexRune(c.param, 42, 1) - 1), LAMBDA baseName :
           Let(IF baseName \in DOMAIN continuation THEN continuation[baseName] ELSE <<>>,
               LAMBDA pmap :
             parseParams_lastWins(c.rest, mediatype, params,
               MapPut(continuation, baseName, MapPut(pmap, c.param, c.value)),
               IF c.param \notin DOMAIN pmap THEN p ELSE PMTErr_add(p, mimeDuplicateParam))))
    ELSE parseParams_lastWins(c.rest, mediatype, MapPut(params, c.param, c.value),
           continuation,
           IF c.param \notin DOMAIN params THEN p ELSE PMTErr_add(p, mimeDuplicateParam)))

\* the loop "for len(v) > 0" of ParseMediaType and the stitching after it
RECURSIVE parseParams(_, _, _, _, _)
parseParams(v, mediatype, params, continuation, p) ==
  IF TrimLeftSpace(v) = <<>>
  THEN PMTReturn(mediatype, stitch(params, continuation), FALSE, gerrOf(p))
  ELSE Let(consumeMediaParam(TrimLeftSpace(v)), LAMBDA c :
    IF c.param = <<>>
    THEN IF TrimSpace(c.rest) = <<59>>
         THEN PMTReturn(mediatype, params, FALSE, gerrOf(p))
         ELSE IF mediatype # <<>>
         THEN PMTReturn(mediatype, params, FALSE, PMTErr_add(p, mimeInvalidParam))
         ELSE PMTReturn(<<>>, <<>>, TRUE, errorsNew(mimeInvalidParam))
    ELSE IF IndexRune(c.param, 42, 1) # 0
    THEN Let(Take(c.param, IndexRune(c.param, 42, 1) - 1), LAMBDA baseName :
           Let(IF baseName \in DOMAIN continuation THEN continuation[baseName] ELSE <<>>,
               LAMBDA pmap :
             IF c.param \notin DOMAIN pmap
             THEN parseParams(c.rest, mediatype, params,
                    MapPut(continuation, baseName, MapPut(pmap, c.param, c.value)), p)
             ELSE parseParams(c.rest, mediatype, params, continuation,
                    PMTErr_add(p, mimeDuplicateParam))))
    ELSE IF c.param \notin DOMAIN params
    THEN parseParams(c.rest, mediatype, MapPut(params, c.param, c.value), continuation, p)
    ELSE parseParams(c.rest, mediatype, params, continuation,
           PMTErr_add(p, mimeDuplicateParam)))

\* ParseMediaType(v)
ParseMediaType(v) ==
  LET i == IF IndexRune(v, 59, 1) = 0 THEN Len(v) ELSE IndexRune(v, 59, 1) - 1
  IN Let(lossyCheckMediaTypeDisposition(NewPMTErr, TrimSpace(ToLower(Take(v, i))), v),
         LAMBDA l :
       IF l.err # "" /\ l.p.bad
       THEN PMTReturn(<<>>, <<>>, TRUE, errorsNew(l.err))
       ELSE parseParams(Drop(v, i), l.mediatype, <<>>, <<>>, l.p))

\* a < b in the order of sort.Strings
RECURSIVE StringLess(_, _)
StringLess(a, b) ==
  IF b = <<>> THEN FALSE
  ELSE IF a = <<>> THEN TRUE
  ELSE IF a[1] # b[1] THEN a[1] < b[1]
  ELSE StringLess(Tail(a), Tail(b))

\* sort.Strings(attrs) of the keys of a map
RECURSIVE SortStrings(_)
SortStrings(S) ==
  IF S = {} THEN <<>>
  ELSE LET least == CHOOSE a \in S : \A b \in S \ {a} : StringLess(a, b)
       IN <<least>> \o SortStrings(S \ {least})

\* character&0x80 != 0
HighBit(character) == (character \div 128) % 2 = 1

\* the loop over a value that is written as a quoted-string: '"' and '\' get a
\* '\' before them; ok is FALSE when a character has bit 0x80 set
RECURSIVE quoteValue(_, _)
quoteValue(value, index) ==
  IF index > Len(value) THEN [s |-> <<>>, ok |-> TRUE]
  ELSE IF HighBit(value[index]) THEN [s |-> <<>>, ok |-> FALSE]
  ELSE LET rest == quoteValue(value, index + 1)
       IN [s |-> (IF value[index] \in {34, 92} THEN <<92>> ELSE <<>>)
                   \o <<value[index]>> \o rest.s,
           ok |-> rest.ok]

\* the loop "for _, attribute := range attrs" of FormatMediaType: the text
\* written for the attributes from position i on, ok FALSE for a return ""
RECURSIVE formatParams(_, _, _)
formatParams(param, attrs, i) ==
  IF i > Len(attrs) THEN [s |-> <<>>, ok |-> TRUE]
  ELSE IF ~isToken(attrs[i]) THEN [s |-> <<>>, ok |-> FALSE]
  ELSE LET value == param[attrs[i]]
           rest == formatParams(param, attrs, i + 1)
           q == quoteValue(value, 1)
       IN IF isToken(value)
          THEN [s |-> <<59, 32>> \o ToLower(attrs[i]) \o <<61>> \o value \o rest.s,
                ok |-> rest.ok]
          ELSE IF ~q.ok THEN [s |-> <<>>, ok |-> FALSE]
          ELSE [s |-> <<59, 32>> \o ToLower(attrs[i]) \o <<61, 34>> \o q.s \o <<34>> \o rest.s,
                ok |-> rest.ok]

\* FormatMediaType(t, param): "" when it rejects its arguments
FormatMediaType(t, param) ==
  LET slash == IndexRune(t, 47, 1)
      major == Take(t, slash - 1)
      sub == Drop(t, slash)
      ps == formatParams(param, SortStrings(DOMAIN param), 1)
  IN IF slash = 0 /\ ~isToken(t) THEN <<>>
     ELSE IF slash # 0 /\ (~isToken(major) \/ ~isToken(sub)) THEN <<>>
     ELSE IF ~ps.ok THEN <<>>
     ELSE ToLower(t) \o ps.s

\* the text before the first ';': '', 'a', 'A/b', ' A/B ', 'a/', 'a b',
\*   'a/b c', ' ', '/b', '='
PMHeads ==
  { <<>>,
    <<97>>,
    <<65, 47, 98>>,
    <<32, 65, 47, 66, 32>>,
    <<97, 47>>,
    <<97, 32, 98>>,
    <<97, 47, 98, 32, 99>>,
    <<32>>,
    <<47, 98>>,
    <<61>> }

\* parameters, well-formed and malformed, and a solitary ';': '; n=v',
\*   ';N=W', '; m="V w"', ';m="a\"B"', ';', ' ; ', '; =v', '; n', '; n=',
\*   '; n=""', ';n="x', ';n="x<LF>y"'
PMParams ==
  { <<59, 32, 110, 61, 118>>,
    <<59, 78, 61, 87>>,
    <<59, 32, 109, 61, 34, 86, 32, 119, 34>>,
    <<59, 109, 61, 34, 97, 92, 34, 66, 34>>,
    <<59>>,
    <<32, 59, 32>>,
    <<59, 32, 61, 118>>,
    <<59, 32, 110>>,
    <<59, 32, 110, 61>>,
    <<59, 32, 110, 61, 34, 34>>,
    <<59, 110, 61, 34, 120>>,
    <<59, 110, 61, 34, 120, 10, 121, 34>> }

\* RFC 2231 parameters (parts, encoded parts, a single encoded value), a
\*   plain one, a solitary ';' and a malformed one: '; n*0=x', '; n*1=Y',
\*   ';n*1*=%41', ';n*0*=utf-8''%41b', ';N*=US-ASCII'en'z%20',
\*   ';n*=latin1''z', ';n*2=q', ';n*0*=utf-8''%4', ';n*0*=utf-8'x', ';
\*   m*0=w', ';n=v', ';', '; =v'
STParams ==
  { <<59, 32, 110, 42, 48, 61, 120>>,
    <<59, 32, 110, 42, 49, 61, 89>>,
    <<59, 110, 42, 49, 42, 61, 37, 52, 49>>,
    <<59, 110, 42, 48, 42, 61, 117, 116, 102, 45, 56, 39, 39, 37, 52, 49, 98>>,
    <<59, 78, 42, 61, 85, 83, 45, 65, 83, 67, 73, 73, 39, 101, 110, 39, 122, 37, 50, 48>>,
    <<59, 110, 42, 61, 108, 97, 116, 105, 110, 49, 39, 39, 122>>,
    <<59, 110, 42, 50, 61, 113>>,
    <<59, 110, 42, 48, 42, 61, 117, 116, 102, 45, 56, 39, 39, 37, 52>>,
    <<59, 110, 42, 48, 42, 61, 117, 116, 102, 45, 56, 39, 120>>,
    <<59, 32, 109, 42, 48, 61, 119>>,
    <<59, 110, 61, 118>>,
    <<59>>,
    <<59, 32, 61, 118>> }

\* types handed to FormatMediaType: 'a', 'A/b', 'a/', 'a b', '', 'a/b/c'
FMTypes ==
  { <<97>>,
    <<65, 47, 98>>,
    <<97, 47>>,
    <<97, 32, 98>>,
    <<>>,
    <<97, 47, 98, 47, 99>> }

\* parameter names handed to FormatMediaType: 'n', 'N', 'm', 'n*', 'n m'
FMNames ==
  { <<110>>,
    <<78>>,
    <<109>>,
    <<110, 42>>,
    <<110, 32, 109>> }

\* parameter values handed to FormatMediaType (the last two are U+00E9 and
\*   U+0100): 'v', 'V w', '', 'a"b', 'a\b', 'x<LF>y', e-acute, A-macron
FMValues ==
  { <<118>>,
    <<86, 32, 119>>,
    <<>>,
    <<97, 34, 98>>,
    <<97, 92, 98>>,
    <<120, 10, 121>>,
    <<233>>,
    <<256>> }

(***************************************************************************)
(* ParseMediaType under test: a head and up to PMMaxParams parameters,     *)
(* then IsOkPMTError on the error returned.                                *)
(***************************************************************************)
PMInputs == {h \o Flatten(ps) : h \in PMHeads, ps \in SeqsUpTo(PMParams, PMMaxParams)}

InitPM ==
  /\ mtIn \in PMInputs
  /\ mtArg = [t |-> <<>>, param |-> <<>>]
  /\ mtRes = [op |-> "none"]
  /\ QPIdle
  /\ U8Idle
  /\ REIdle

\* mediatype, params, err := ParseMediaType(v)
PMParse ==
  /\ mtRes.op = "none"
  /\ \E r \in {ParseMediaType(mtIn)} :
       mtRes' = [op |-> "ParseMediaType", mediatype |-> r.mediatype,
                 params |-> r.params, nilParams |-> r.nilParams, gerr |-> r.gerr,
                 ok |-> NoError]
  /\ UNCHANGED <<mtArg, mtIn, qpVars, u8Vars, reVars>>

\* IsOkPMTError(err) on the error ParseMediaType returned
PMIsOk ==
  /\ mtRes.op = "ParseMediaType"
  /\ mtRes' = [mtRes EXCEPT !.op = "IsOkPMTError", !.ok = IsOkPMTError(mtRes.gerr)]
  /\ UNCHANGED <<mtArg, mtIn, qpVars, u8Vars, reVars>>

NextPM == PMParse \/ PMIsOk

SpecPM == InitPM /\ [][NextPM]_vars

\* ParseMediaType has returned
PMDone == mtRes.op \in {"ParseMediaType", "IsOkPMTError"}

(***************************************************************************)
(* RFC 2231 continuations under test: one head and up to STMaxParams       *)
(* parameters.                                                             *)
(***************************************************************************)
\* 'a/b'
STHead == <<97, 47, 98>>

STInputs == {STHead \o Flatten(ps) : ps \in SeqsUpTo(STParams, STMaxParams)}

InitST ==
  /\ mtIn \in STInputs
  /\ mtArg = [t |-> <<>>, param |-> <<>>]
  /\ mtRes = [op |-> "none"]
  /\ QPIdle
  /\ U8Idle
  /\ REIdle

SpecST == InitST /\ [][NextPM]_vars

(***************************************************************************)
(* FormatMediaType under test: a type and a map of up to FMMaxParams        *)
(* parameters; what it returns, when not "", is parsed again.              *)
(***************************************************************************)
FMMaps == UNION {[K -> FMValues] : K \in {K \in SUBSET FMNames : Cardinality(K) <= FMMaxParams}}

FMArgs == {[t |-> t, param |-> m] : t \in FMTypes, m \in FMMaps}

InitFM ==
  /\ mtArg \in FMArgs
  /\ mtIn = <<>>
  /\ mtRes = [op |-> "none"]
  /\ QPIdle
  /\ U8Idle
  /\ REIdle

\* s := FormatMediaType(t, param)
FMFormat ==
  /\ mtRes.op = "none"
  /\ \E s \in {FormatMediaType(mtArg.t, mtArg.param)} :
       /\ mtIn' = s
       /\ mtRes' = [op |-> "FormatMediaType", s |-> s]
  /\ UNCHANGED <<mtArg, qpVars, u8Vars, reVars>>

\* ParseMediaType(s) for the s FormatMediaType returned
FMParse ==
  /\ mtRes.op = "FormatMediaType"
  /\ mtIn # <<>>
  /\ \E r \in {ParseMediaType(mtIn)} :
       mtRes' = [op |-> "ParseMediaType", mediatype |-> r.mediatype,
                 params |-> r.params, nilParams |-> r.nilParams, gerr |-> r.gerr,
                 ok |-> NoError]
  /\ UNCHANGED <<mtArg, mtIn, qpVars, u8Vars, reVars>>

NextFM == FMFormat \/ FMParse

SpecFM == InitFM /\ [][NextFM]_vars

(***************************************************************************)
(* Claims about the media types.                                           *)
(***************************************************************************)
\* C21: whenever FormatMediaType(t, p) returns a non-empty string, parsing
\* that string gives the media type lower(t) and the parameter map
\* {lower(k) -> p[k]}.
C21_RoundTrip ==
  mtRes.op = "ParseMediaType"
    => /\ mtRes.mediatype = ToLower(mtArg.t)
       /\ ~mtRes.nilParams
       /\ DOMAIN mtRes.params = {ToLower(k) : k \in DOMAIN mtArg.param}
       /\ \A k \in DOMAIN mtArg.param : mtRes.params[ToLower(k)] = mtArg.param[k]

\* some character of s is outside ASCII
NonASCII(s) == \E i \in 1..Len(s) : s[i] >= 128

\* a type that is a token, or two tokens with a '/' between them
TypeIsTokens(t) ==
  \/ isToken(t)
  \/ \E i \in 1..Len(t) :
       t[i] = 47 /\ isToken(Take(t, i - 1)) /\ isToken(Drop(t, i))

\* a value as the rule writes it: bare when it is a token, else in quotes
\* with '\' before every '"' and '\'
RECURSIVE RuleEscaped(_)
RuleEscaped(value) ==
  IF value = <<>> THEN <<>>
  ELSE (IF value[1] \in {34, 92} THEN <<92>> ELSE <<>>) \o <<value[1]>>
         \o RuleEscaped(Tail(value))

RuleValue(value) ==
  IF isToken(value) THEN value ELSE <<34>> \o RuleEscaped(value) \o <<34>>

\* '; name=value' for the names of attrs, in that order
RECURSIVE RuleParams(_, _)
RuleParams(param, attrs) ==
  IF attrs = <<>> THEN <<>>
  ELSE <<59, 32>> \o ToLower(attrs[1]) \o <<61>> \o RuleValue(param[attrs[1]])
         \o RuleParams(param, Tail(attrs))

\* C28: FormatMediaType returns "" whenever the type is not a token or two
\* tokens around '/', a parameter name is not a token, or a parameter value
\* holds a character outside ASCII; otherwise it returns the lower-cased type
\* and '; name=value' for each parameter in sorted name order, values that
\* are no tokens quoted, with '"' and '\' escaped by '\'.
C28_FormatRejection ==
  mtRes.op = "FormatMediaType"
    => IF \/ ~TypeIsTokens(mtArg.t)
          \/ \E k \in DOMAIN mtArg.param : ~isToken(k)
          \/ \E k \in DOMAIN mtArg.param : NonASCII(mtArg.param[k])
       THEN mtRes.s = <<>>
       ELSE mtRes.s = ToLower(mtArg.t)
                        \o RuleParams(mtArg.param, SortStrings(DOMAIN mtArg.param))

\* ParseMediaType returned a fatal error: one that IsOkPMTError does not
\* turn into nil
PMFatal == mtRes.gerr.kind = "errorString" \/ (mtRes.gerr.kind = "PMTErr" /\ mtRes.gerr.bad)

\* the text of mtIn before its first ';'
PMHeadText ==
  IF IndexRune(mtIn, 59, 1) = 0 THEN mtIn ELSE Take(mtIn, IndexRune(mtIn, 59, 1) - 1)

\* every key of the returned map is lower-case, and every value stands in
\* the input after an '=', as a token or as a quoted-string with its escapes
PMKeysAndValues ==
  /\ ~mtRes.nilParams
  /\ \A k \in DOMAIN mtRes.params :
       /\ k = ToLower(k)
       /\ Contains(mtIn, <<61>> \o RuleValue(mtRes.params[k]))

\* C22 as stated: without a fatal error the media type is the text before
\* the first ';', lower-cased and trimmed; the map is not nil, its keys are
\* lower-case and its values keep the case they were written in.
C22_ParseNormalization ==
  (PMDone /\ ~PMFatal)
    => /\ mtRes.mediatype = TrimSpace(ToLower(PMHeadText))
       /\ PMKeysAndValues

\* C22 amended: the media type is that text when it is a token or two
\* tokens around '/'; otherwise it is "unknown" when the text starts with no
\* token, and else the leading token with "/unknown" or with '/' and the
\* token after the slash.  The map is as stated.
C22_ParseNormalizationAmended ==
  (PMDone /\ ~PMFatal)
    => /\ IF TypeIsTokens(TrimSpace(ToLower(PMHeadText)))
          THEN mtRes.mediatype = TrimSpace(ToLower(PMHeadText))
          ELSE IF consumeToken(TrimSpace(ToLower(PMHeadText))).token = <<>>
          THEN mtRes.mediatype = unknown
          ELSE \/ mtRes.mediatype =
                    SlashJoin(consumeToken(TrimSpace(ToLower(PMHeadText))).token, unknown)
               \/ /\ HasPrefix(TrimSpace(ToLower(PMHeadText)), mtRes.mediatype)
                  /\ Contains(mtRes.mediatype, <<47>>)
                  /\ TypeIsTokens(mtRes.mediatype)
       /\ PMKeysAndValues

\* C22's case: a head in upper case with white space around it, a name in
\* upper case and a quoted value with an escape
C22_Witness ==
  /\ PMDone /\ ~PMFatal
  /\ HasPrefix(mtIn, <<32, 65, 47, 66, 32, 59>>)
  /\ mtRes.mediatype = <<97, 47, 98>>
  /\ DOMAIN mtRes.params = {<<110>>, <<109>>}
  /\ mtRes.params[<<110>>] = <<87>>
  /\ mtRes.params[<<109>>] = <<97, 34, 66>>

\* the lower-cased, trimmed text before the first ';' starts with no token
PMNoHead == consumeToken(TrimSpace(ToLower(PMHeadText))).token = <<>>

\* err is among the errors ParseMediaType collected
PMHasError(err) ==
  mtRes.gerr.kind = "PMTErr" /\ \E i \in 1..Len(mtRes.gerr.errs) : mtRes.gerr.errs[i] = err

\* C23 as stated: every input whose text before the first ';' starts with no
\* token, the empty string among them, gets a fatal error and no media type.
C23_FatalClass ==
  (PMDone /\ PMNoHead) => (PMFatal /\ mtRes.mediatype = <<>> /\ mtRes.nilParams)

\* C23 amended: the error is fatal for the empty string only, which gets
\* 'no media type' itself, no media type and no map.  A non-empty input
\* whose head starts with no token gets the media type "unknown", a map and
\* a recoverable 'no media type'; a malformed parameter is never fatal.
C23_FatalClassAmended ==
  PMDone
    => /\ PMFatal <=> mtIn = <<>>
       /\ mtIn = <<>>
            => /\ mtRes.gerr = errorsNew(mimeNoMediaType)
               /\ mtRes.mediatype = <<>>
               /\ mtRes.nilParams
       /\ (mtIn # <<>> /\ PMNoHead)
            => /\ mtRes.mediatype = unknown
               /\ ~mtRes.nilParams
               /\ mtRes.gerr.kind = "PMTErr"
               /\ mtRes.gerr.errs[1] = mimeNoMediaType
       /\ PMHasError(mimeInvalidParam) => (~PMFatal /\ mtRes.mediatype # <<>>)

\* C23's case: a non-empty input without a head and with a malformed
\* parameter
C23_Witness ==
  /\ PMDone
  /\ mtIn # <<>>
  /\ PMNoHead
  /\ mtRes.mediatype = unknown
  /\ PMHasError(mimeInvalidParam)
  /\ ~PMFatal

\* C24: IsOkPMTError(err) is nil when err is nil or a parse error without an
\* unrecoverable part, and err otherwise.  For the error of
\* ParseMediaType(v) it is non-nil exactly when v = "", and then the media
\* type is "" and the map nil; every other v gets a media type that is not
\* empty and a map that is not nil.
C24_IgnorablePredicate ==
  mtRes.op = "IsOkPMTError"
    => /\ IF \/ mtRes.gerr.kind = "nil"
             \/ mtRes.gerr.kind = "PMTErr" /\ ~mtRes.gerr.bad
          THEN mtRes.ok.kind = "nil"
          ELSE mtRes.ok = mtRes.gerr
       /\ mtRes.ok.kind # "nil" <=> mtIn = <<>>
       /\ mtIn = <<>> => (mtRes.mediatype = <<>> /\ mtRes.nilParams)
       /\ mtIn # <<>> => (mtRes.mediatype # <<>> /\ ~mtRes.nilParams)

\* C24's case: a parse with two recoverable errors, which IsOkPMTError
\* turns into nil
C24_Witness ==
  /\ mtRes.op = "IsOkPMTError"
  /\ mtRes.gerr.kind = "PMTErr"
  /\ Len(mtRes.gerr.errs) >= 2
  /\ mtRes.ok.kind = "nil"
  /\ mtRes.mediatype # <<>>

\* the leading token of the head and what follows it
PMHeadToken == consumeToken(TrimSpace(ToLower(PMHeadText)))

\* the token after the slash of the head and what follows it
PMSubToken == consumeToken(Tail(PMHeadToken.rest))

\* the errors of the head check
PMHeadErrors == {mimeNoMediaType, mimeNoSlash, mimeTokenSlash, mimeUnexpectedContent}

\* the parameters are those of the same parameter list after the head "x"
PMParamsContinue ==
  /\ ~mtRes.nilParams
  /\ mtRes.params = ParseMediaType(<<120>> \o Drop(mtIn, Len(PMHeadText))).params

\* C25: a head that is a bare token gives that token and no error of the
\* head; a token followed by something other than '/' and a token with '/'
\* and no token after it give 'token/unknown'; 'token/token' followed by
\* more gives 'token/token'; these three come with a recoverable error, and
\* in all four cases the parameters are parsed.
C25_LossyHead ==
  (PMDone /\ PMHeadToken.token # <<>>)
    => /\ PMHeadToken.rest = <<>>
            => /\ mtRes.mediatype = PMHeadToken.token
               /\ \A e \in PMHeadErrors : ~PMHasError(e)
       /\ (PMHeadToken.rest # <<>> /\ PMHeadToken.rest[1] # 47)
            => /\ mtRes.mediatype = SlashJoin(PMHeadToken.token, unknown)
               /\ PMHasError(mimeNoSlash)
       /\ (PMHeadToken.rest # <<>> /\ PMHeadToken.rest[1] = 47 /\ PMSubToken.token = <<>>)
            => /\ mtRes.mediatype = SlashJoin(PMHeadToken.token, unknown)
               /\ PMHasError(mimeTokenSlash)
       /\ (PMHeadToken.rest # <<>> /\ PMHeadToken.rest[1] = 47 /\ PMSubToken.token # <<>>
             /\ PMSubToken.rest # <<>>)
            => /\ mtRes.mediatype = SlashJoin(PMHeadToken.token, PMSubToken.token)
               /\ PMHasError(mimeUnexpectedContent)
       /\ ~PMFatal
       /\ PMParamsContinue

\* C25's case: the head 'a/' with parameters after it
C25_Witness ==
  /\ PMDone
  /\ TrimSpace(ToLower(PMHeadText)) = <<97, 47>>
  /\ mtRes.mediatype = SlashJoin(<<97>>, unknown)
  /\ PMHasError(mimeTokenSlash)
  /\ DOMAIN mtRes.params # {}
  /\ ~PMFatal

\* the parameters written in v one after the other, up to the end, a
\* solitary ';' or a malformed one: name (lower-cased) and value of each
RECURSIVE PMOccurrences(_)
PMOccurrences(v) ==
  IF TrimLeftSpace(v) = <<>> THEN <<>>
  ELSE Let(consumeMediaParam(TrimLeftSpace(v)), LAMBDA c :
         IF c.param = <<>> THEN <<>>
         ELSE <<[key |-> c.param, value |-> c.value]>> \o PMOccurrences(c.rest))

\* the parameters written after the head of mtIn
PMWritten == PMOccurrences(Drop(mtIn, Len(PMHeadText)))

\* some name is written more than once
PMDuplicate == \E i, j \in 1..Len(PMWritten) : i < j /\ PMWritten[i].key = PMWritten[j].key

\* C26: every name written in the input has the value of its first
\* occurrence in the result, and when a name is written more than once the
\* error is a recoverable one that holds 'duplicate parameter name'.
C26_DuplicateParameters ==
  (PMDone /\ mtIn # <<>>)
    => /\ DOMAIN mtRes.params = {PMWritten[i].key : i \in 1..Len(PMWritten)}
       /\ \A i \in 1..Len(PMWritten) :
            (\A j \in 1..(i - 1) : PMWritten[j].key # PMWritten[i].key)
              => mtRes.params[PMWritten[i].key] = PMWritten[i].value
       /\ PMDuplicate <=> PMHasError(mimeDuplicateParam)
       /\ PMDuplicate => ~PMFatal

\* C26's case: a name written twice with different values, in different
\* case, and the first value in the result
C26_Witness ==
  /\ mtRes.op = "IsOkPMTError"
  /\ Len(PMWritten) >= 2
  /\ PMWritten[1].key = PMWritten[2].key
  /\ PMWritten[1].value # PMWritten[2].value
  /\ mtRes.params[PMWritten[1].key] = PMWritten[1].value
  /\ PMHasError(mimeDuplicateParam)
  /\ mtRes.ok.kind = "nil"

\* name is written among the parameters of mtIn
STHas(name) == \E i \in 1..Len(PMWritten) : PMWritten[i].key = name

\* the value of the first occurrence of name
STValue(name) ==
  PMWritten[CHOOSE i \in 1..Len(PMWritten) :
              /\ PMWritten[i].key = name
              /\ \A j \in 1..(i - 1) : PMWritten[j].key # name].value

\* the base names of the written names that hold a '*'
STBases ==
  {Take(PMWritten[i].key, IndexRune(PMWritten[i].key, 42, 1) - 1) :
     i \in {j \in 1..Len(PMWritten) : IndexRune(PMWritten[j].key, 42, 1) # 0}}

\* every '%' of s is followed by two hex digits
RulePercentsOk(s) ==
  \A i \in 1..Len(s) :
    s[i] = 37 => /\ i + 2 <= Len(s)
                 /\ RuleIsHex(s[i + 1])
                 /\ RuleIsHex(s[i + 2])

\* s with each %HH replaced by the byte it names
RECURSIVE RulePercentDecoded(_)
RulePercentDecoded(s) ==
  IF s = <<>> THEN <<>>
  ELSE IF s[1] = 37
  THEN <<16 * RuleHexValue(s[2]) + RuleHexValue(s[3])>> \o RulePercentDecoded(Drop(s, 3))
  ELSE <<s[1]>> \o RulePercentDecoded(Tail(s))

\* percent-decoding as the rule has it: "" for a malformed escape
RulePercent(s) == IF RulePercentsOk(s) THEN RulePercentDecoded(s) ELSE <<>>

\* the positions of the quotes of v
RuleQuotes(v) == {i \in 1..Len(v) : v[i] = 39}

\* charset'lang'value as the rule has it: "" for fewer than three fields and
\* for a charset other than us-ascii and utf-8, else the percent-decoded
\* text after the second quote
RuleDecode(v) ==
  IF Cardinality(RuleQuotes(v)) < 2 THEN <<>>
  ELSE LET q1 == CHOOSE i \in RuleQuotes(v) : \A j \in RuleQuotes(v) : i <= j
           q2 == CHOOSE i \in RuleQuotes(v) \ {q1} : \A j \in RuleQuotes(v) \ {q1} : i <= j
       IN IF ToLower(Take(v, q1 - 1)) \notin
               {<<117, 115, 45, 97, 115, 99, 105, 105>>, <<117, 116, 102, 45, 56>>}
          THEN <<>>
          ELSE RulePercent(Drop(v, q2))

\* the parts base*n, base*n+1, ... up to the first gap, put together
RECURSIVE RuleParts(_, _)
RuleParts(base, n) ==
  IF STHas(base \o <<42>> \o Itoa(n))
  THEN STValue(base \o <<42>> \o Itoa(n)) \o RuleParts(base, n + 1)
  ELSE IF STHas(base \o <<42>> \o Itoa(n) \o <<42>>)
  THEN (IF n = 0 THEN RuleDecode(STValue(base \o <<42, 48, 42>>))
        ELSE RulePercent(STValue(base \o <<42>> \o Itoa(n) \o <<42>>)))
         \o RuleParts(base, n + 1)
  ELSE <<>>

\* C27: for every base name of a parsed name with '*': with a 'base*' entry
\* params[base] is its decoded value; else with a part 0 it is the parts
\* 0, 1, 2, ... up to the first gap put together, 'base*n' as written and
\* 'base*n*' decoded; else params[base] is not set by the parts.
C27_Stitching ==
  PMDone
    => \A base \in STBases :
         IF STHas(base \o <<42>>)
         THEN /\ base \in DOMAIN mtRes.params
              /\ mtRes.params[base] = RuleDecode(STValue(base \o <<42>>))
         ELSE IF STHas(base \o <<42, 48>>) \/ STHas(base \o <<42, 48, 42>>)
         THEN /\ base \in DOMAIN mtRes.params
              /\ mtRes.params[base] = RuleParts(base, 0)
         ELSE /\ base \in DOMAIN mtRes.params <=> STHas(base)
              /\ STHas(base) => mtRes.params[base] = STValue(base)

\* what is left of v where the parameter loop stops: "" at the end of the
\* input, else the text that starts with the solitary ';' or the malformed
\* parameter
RECURSIVE PMStopRest(_)
PMStopRest(v) ==
  IF TrimLeftSpace(v) = <<>> THEN <<>>
  ELSE Let(consumeMediaParam(TrimLeftSpace(v)), LAMBDA c :
         IF c.param = <<>> THEN TrimLeftSpace(v) ELSE PMStopRest(c.rest))

\* the loop met a malformed parameter
PMMalformed ==
  /\ PMStopRest(Drop(mtIn, Len(PMHeadText))) # <<>>
  /\ TrimSpace(PMStopRest(Drop(mtIn, Len(PMHeadText)))) # <<59>>

\* mtIn up to the place where the loop stops
PMBeforeStop == Take(mtIn, Len(mtIn) - Len(PMStopRest(Drop(mtIn, Len(PMHeadText)))))

\* C29: when the loop meets a malformed parameter after a head,
\* ParseMediaType returns the media type and the parameters of the input
\* up to that parameter, with an 'invalid media parameter' error that
\* IsOkPMTError turns into nil.
C29_MalformedParameter ==
  (mtRes.op = "IsOkPMTError" /\ ~PMNoHead /\ PMMalformed)
    => /\ mtRes.mediatype = ParseMediaType(PMBeforeStop).mediatype
       /\ ~mtRes.nilParams
       /\ mtRes.params = ParseMediaType(PMBeforeStop).params
       /\ PMHasError(mimeInvalidParam)
       /\ mtRes.ok.kind = "nil"

\* mtIn is v with a ';' after it, for a v that parses without an error
PMTrailingSemicolon ==
  /\ Len(mtIn) > 1
  /\ mtIn[Len(mtIn)] = 59
  /\ ParseMediaType(Take(mtIn, Len(mtIn) - 1)).gerr.kind = "nil"

\* C30: ParseMediaType(v + ';') returns the media type, the map and the
\* error of ParseMediaType(v).
C30_TrailingSemicolon ==
  (PMDone /\ PMTrailingSemicolon)
    => /\ mtRes.mediatype = ParseMediaType(Take(mtIn, Len(mtIn) - 1)).mediatype
       /\ mtRes.nilParams = ParseMediaType(Take(mtIn, Len(mtIn) - 1)).nilParams
       /\ mtRes.params = ParseMediaType(Take(mtIn, Len(mtIn) - 1)).params
       /\ mtRes.gerr = ParseMediaType(Take(mtIn, Len(mtIn) - 1)).gerr

(***************************************************************************)
(* Claims about the rejoiner's assembly buffer and its reads.              *)
(***************************************************************************)
\* the states in which own holds a candidate that is still collected
AsCollecting == {"stStart", "st0x0D", "st0x0A", "st0x10XXXXXX"}

\* the invariant of C31 for one state q of the rejoiner
AsStateOk(q) ==
  /\ 0 <= q.cco
  /\ q.cco <= q.pco
  /\ q.pco <= OwnLen
  /\ q.state # "stNormal" => IsLead(q.own[1])
  /\ q.state \in {"st0x0D", "st0x0A"} => q.pos < q.pco

\* the index of own that cycle writes for the byte b in state q is in 0..5
\* (no write: in range)
AsWriteOk(q, b) ==
  IF q.state \notin AsCollecting \/ IsLead(b) THEN TRUE
  ELSE IF q.state = "st0x0A" /\ IsCont(b) THEN q.pos \in 0..(OwnLen - 1)
  ELSE q.pco \in 0..(OwnLen - 1)

\* cycle over buf[start..n) of q goes through states that satisfy the
\* invariant and writes own within its range: the state before each byte is
\* the result of the cycle cut off there
AsCycleOk(q, p, start, n, max) ==
  \A j \in start..n :
    \E c \in {cycle(q, p, start, j, max)} :
      /\ AsStateOk(c.q)
      /\ (c.ok /\ j < n) => AsWriteOk(c.q, q.buf[j + 1])

\* the bytes the upstream hands over in the step
AsChunk == Take(u8Src.data, Len(u8Src.data) - Len(u8Src'.data))

\* C31: in every state the rejoiner goes through, between calls of Read and
\* between the bytes of one call, 0 <= cco <= pco <= 6, own[0] is a lead
\* byte unless the state is stNormal, pos < pco in st0x0D and st0x0A, and
\* every write into own has an index in 0..5.
C31_AssemblyInvariant ==
  [][ /\ AsStateOk(u8Q)
      /\ AsStateOk(u8Q')
      /\ u8Q.pcb > u8Q.ccb => AsCycleOk(u8Q, <<>>, u8Q.ccb, u8Q.pcb, u8Ret'.max)
      /\ \E b \in {ReadBefore(u8Q, u8Ret'.max)} :
           /\ AsStateOk(b.q)
           /\ ~b.done =>
                AsCycleOk([b.q EXCEPT !.buf = AsChunk], b.p, 0, Len(AsChunk), u8Ret'.max)
    ]_vars

\* C31's case: own is full in st0x10XXXXXX's release, which the caller's
\* buffer of six bytes cut short
C31_Witness ==
  /\ u8Q.state = "stRelease"
  /\ u8Q.pco = OwnLen
  /\ u8Q.cco = OwnLen
  /\ u8Ret.max = OwnLen
  /\ IsCont(u8Q.own[OwnLen])

\* a Read has been called
AsCalled == u8Ret.max > 0

\* C32: a Read asks its upstream for at most min(512, len(p) - bytes written
\* in this call - bytes held in own) bytes, and for nothing when that is
\* <= 0 or when the upstream has returned an error before; it writes at
\* most len(p) bytes.
C32_ReadScheduling ==
  AsCalled
    => /\ u8Ret.asked <= Min(BufLen, u8Ret.max - u8Ret.emitted - u8Ret.held)
            \/ u8Ret.asked = 0
       /\ u8Ret.max - u8Ret.emitted - u8Ret.held <= 0 => u8Ret.asked = 0
       /\ u8Ret.hadErr => u8Ret.asked = 0
       /\ u8Ret.n <= u8Ret.max

\* C32's case: a Read with a caller buffer longer than buf and a byte held
\* in own, which asks for the 512 bytes of buf
C32_Witness ==
  /\ AsCalled
  /\ u8Ret.max = AsBigCap
  /\ u8Ret.held > 0
  /\ u8Ret.asked = BufLen

\* the bytes of the input the rejoiner has taken from its upstream
AsConsumed == Take(u8In, Len(u8In) - Len(u8Src.data))

\* n continuation bytes
AsConts(n) == [i \in 1..n |-> 164]

\* a lead byte, a continuation bytes, the line break lb and b continuation
\* bytes
AsCandidate(a, lb, b) == <<195>> \o AsConts(a) \o lb \o AsConts(b)

\* the bytes of own that are not yet handed to the caller
AsHeld == SubSeq(u8Q.own, u8Q.cco + 1, u8Q.pco)

\* the rejoiner still collects: the upstream has returned no error
AsOpen == AsCalled /\ u8Q.err = NilErr

\* C33 as stated: a lead byte and continuation bytes stay in own, the
\* candidate open, as long as they are fewer than 6, in stStart as in
\* st0x10XXXXXX; so a lead byte, three continuation bytes, a line break and
\* a continuation byte come out without the line break.
C33_AccumulationLimit ==
  /\ \A a \in 1..(OwnLen - 2) :
       (AsOpen /\ AsConsumed = AsCandidate(a, <<>>, 0))
         => (u8Q.state = "stStart" /\ u8Q.pco = a + 1 /\ u8Out = <<>>)
  /\ \A a \in 0..2, b \in 1..(OwnLen - 2) :
       (AsOpen /\ a + b < OwnLen - 1 /\ AsConsumed \in {AsCandidate(a, lf, b), AsCandidate(a, crlf, b)})
         => (u8Q.state = "st0x10XXXXXX" /\ u8Q.pco = a + b + 1 /\ u8Out = <<>>)
  /\ (U8Done /\ u8In \in {AsCandidate(3, lf, 1), AsCandidate(3, crlf, 1)})
       => u8Out = AsCandidate(4, <<>>, 0)

\* C33 amended: in stStart the candidate stays open as long as own holds
\* fewer than 4 bytes and is released when it holds 4; in st0x10XXXXXX it
\* stays open below 6 bytes and is released at 6.  A lead byte with three
\* continuation bytes is released before the line break, which stays.
C33_AccumulationLimitAmended ==
  /\ \A a \in 1..2 :
       (AsOpen /\ AsConsumed = AsCandidate(a, <<>>, 0))
         => (u8Q.state = "stStart" /\ u8Q.pco = a + 1 /\ u8Out = <<>>)
  /\ (AsOpen /\ AsConsumed = AsCandidate(3, <<>>, 0))
       => (u8Q.state \in {"stNormal", "stRelease"} /\ u8Out \o AsHeld = AsConsumed)
  /\ \A a \in 0..2, b \in 1..(OwnLen - 1) :
       (AsOpen /\ AsConsumed \in {AsCandidate(a, lf, b), AsCandidate(a, crlf, b)})
         => IF a + b < OwnLen - 1
            THEN u8Q.state = "st0x10XXXXXX" /\ u8Q.pco = a + b + 1 /\ u8Out = <<>>
            ELSE a + b = OwnLen - 1
                   => /\ u8Q.state \in {"stNormal", "stRelease"}
                      /\ u8Out \o AsHeld = AsCandidate(a + b, <<>>, 0)
  /\ (U8Done /\ u8In \in {AsCandidate(3, lf, 1), AsCandidate(3, crlf, 1)})
       => u8Out = u8In

\* C33's case: own holds a lead byte and four continuation bytes, two from
\* before the line break and two from after it, and the candidate is open
C33_Witness ==
  /\ AsOpen
  /\ AsConsumed \in {AsCandidate(2, crlf, 2), AsCandidate(2, lf, 2)}
  /\ u8Q.state = "st0x10XXXXXX"
  /\ u8Q.pco = OwnLen - 1

\* C37: with any one caller buffer length, repeated Read calls eventually
\* return the upstream's end-of-stream error.
C37_RejoinerTermination == <>(u8Ret.err = ErrEOF)

(***************************************************************************)
(* Claims about the decoder's Read calls one after another.                *)
(***************************************************************************)
\* a Read call with len(p) = max before its first iteration
QPEnter(r, br, max) ==
  [r |-> r, br |-> br, p |-> <<>>, max |-> max, err |-> NilErr,
   done |-> FALSE, again |-> FALSE]

\* the states of a Read call, one after each iteration of its loop
RECURSIVE QPTrace(_)
QPTrace(m) ==
  IF m.done THEN <<m>> ELSE Let(iteration(m), LAMBDA m2 : <<m>> \o QPTrace(m2))

\* the states the call of this step runs through
QPThisCall == QPTrace(QPEnter(qpRd, qpBr, qpRet'.max))

\* a strict reader that has recorded a recoverable error
QPStrictRecorded(r) == r.strict /\ Len(r.gerr.errs) > 0

\* once the error is recorded no further line is acquired
QPNoLaterLine(t) ==
  \A i \in 1..(Len(t) - 1) : QPStrictRecorded(t[i].r) => t[i + 1].br = t[i].br

\* the error is returned with the line used up
QPLineUsedUp(m) ==
  (QPStrictRecorded(m.r) /\ m.err # NilErr)
    => (m.err = m.r.gerr.errs[1] /\ m.r.line = <<>>)

\* C34: a strict reader that has recorded a recoverable error emits what is
\* left of that line (the bytes it stashed from it included), then returns
\* the error, and acquires no later line.
C34_StrictStopsAtLineEnd ==
  [][\E t \in {QPThisCall} :
       /\ QPNoLaterLine(t)
       /\ QPLineUsedUp(t[Len(t)])
       /\ (QPStrictRecorded(t[Len(t)].r) /\ t[Len(t)].err # NilErr)
            => t[Len(t)].r.lastLen = 0]_vars

\* C34 without the stashed bytes
C34_StrictStopsAtFragmentEnd ==
  [][\E t \in {QPThisCall} :
       /\ QPNoLaterLine(t)
       /\ QPLineUsedUp(t[Len(t)])]_vars

\* the iteration from this state of a call reads a line from the upstream
QPReadsLine(m) ==
  /\ ~m.done
  /\ Len(m.p) < m.max
  /\ ~m.again
  /\ Len(m.r.line) = 0
  /\ Fn(m.r) = NilErr

\* C35: after a Read has returned an error, every later Read returns the
\* same error, reads nothing from the upstream, and returns only bytes that
\* were still pending in the straddle buffer (n = 0 when there were none).
C35_StickyError ==
  [][qpRet.err # NilErr =>
       \E t \in {QPThisCall} :
         /\ qpRet'.err = qpRet.err
         /\ \A i \in 1..Len(t) : ~QPReadsLine(t[i])
         /\ qpBr' = qpBr
         /\ qpRet'.n <= qpRd.lastLen
         /\ Len(qpOut') = Len(qpOut) + qpRet'.n
         /\ qpOut' = qpOut \o SubSeq(LastBytes(qpRd), 1, qpRet'.n)]_vars

\* C35's case: a Read after the one that returned the error, which hands
\* over a byte that was pending in the straddle buffer, with the error again
C35_Witness ==
  /\ qpRet.after >= 1
  /\ qpRet.err # NilErr
  /\ qpRet.n = 1
  /\ qpRd.lastLen = 0
  /\ qpBr.data # <<>>

\* the index expressions of the iteration made from state m stay within
\* r.line, within the array prev and within its first maxQPBuf bytes
QPAccessOk(m) ==
  LET r == m.r
      lastNum == r.lastLen
      diff == maxQPBuf - lastNum
  IN IF m.done \/ Len(m.p) >= m.max THEN TRUE
     ELSE IF m.again THEN Len(r.line) >= 1
     ELSE IF Len(r.line) = 0 THEN r.lastOff + r.lastLen <= maxQPBuf
     ELSE IF lastNum > 0
     THEN /\ r.lastOff + lastNum <= maxQPBuf
          /\ (r.prev[r.lastOff + 1] = 61
              /\ ~(lastNum = 1 /\ (HasPrefix(r.line, lf) \/ HasPrefix(r.line, crlf)
                                   \/ Len(r.line) < 2)))
               => (diff >= 0 /\ Len(r.line) >= diff /\ lastNum + diff <= maxQPBuf)
     ELSE (r.line[1] = 61 /\ readHexByte(Drop(r.line, 1)).err = ErrUnexpectedEOF
           /\ r.rerr = ErrBufferFull)
            => Len(r.line) <= maxQPBuf

\* the bytes a Reader still has to work on
QPLeft(r, br) == Len(br.data) + Len(r.line) + r.lastLen

\* C36: repeated Read calls end with an error for every input, selector,
\* read-ahead buffer size and caller buffer lengths; a single call makes a
\* bounded number of iterations and every index it uses is in range.
C36_DecoderTermination ==
  /\ <>QPDone
  /\ [][\E t \in {QPThisCall} :
          /\ Len(t) <= 2 * (QPLeft(qpRd, qpBr) + qpRet'.max) + 3
          /\ \A i \in 1..Len(t) : QPAccessOk(t[i])]_vars

\* C36's case: the calls have ended with an error after an escape that
\* straddled two reads of the upstream was given out byte by byte
C36_Witness ==
  /\ QPDone
  /\ qpRet.max = 1
  /\ qpBr.size = 1
  /\ Len(qpIn) = TmMaxLen
  /\ Len(qpOut) >= 2
  /\ qpOut[1] = 61

\* the decode of the input with one caller buffer that never fills
QPOneBuffer == Decode(qpRd.strict, qpIn, qpBr.err, qpBr.size)

\* C38: the bytes returned by the Read calls up to the first error, and
\* that error, are those of a decode with one large caller buffer, whatever
\* the lengths of the caller's buffers.
C38_CallerBufferIndependence ==
  QPDone => (qpOut = QPOneBuffer.out /\ qpRet.err = QPOneBuffer.err)

\* C38 for a caller that reads on after the error until nothing is pending
C38_IndependenceOnceDrained ==
  (QPDone /\ qpRd.lastLen = 0)
    => (qpOut = QPOneBuffer.out /\ qpRet.err = QPOneBuffer.err)

\* C38 for the error and for the bytes up to it
C38_IndependenceUpToError ==
  QPDone => (IsPrefix(qpOut, QPOneBuffer.out) /\ qpRet.err = QPOneBuffer.err
             /\ Len(qpOut) + qpRd.lastLen = Len(QPOneBuffer.out))

====
